---- MODULE Spec2Model ----
(***************************************************************************)
(* A model of the pure-python cryptographic core of                        *)
(* Tools/keywizard/dakota_keywizard.py: Keccak-256, secp256k1 key          *)
(* derivation, AES-128 in counter mode and the V3 keystore written by      *)
(* generate_eoa.                                                           *)
(*                                                                         *)
(* Byte strings are sequences over 0..255.  A Python int that does not fit *)
(* a machine word (a lane, a counter, a field element) is a sequence of    *)
(* base-256 digits, least significant first, without high zero digits;     *)
(* small ints (lengths, indices, single bytes) are TLA+ integers.          *)
(***************************************************************************)
EXTENDS Integers, Sequences, FiniteSets, Bags, TLC

VARIABLES
  pc,    \* the position of the running script
  inp,   \* the actual parameters of the calls it makes
  out    \* what the calls made so far returned or raised

vars == <<pc, inp, out>>

(***************************************************************************)
(* Outcomes of a call: a returned value, or the process exit of die(), or  *)
(* a Python exception.                                                     *)
(***************************************************************************)
Returned(v) == [kind |-> "return", val |-> v]

Raised(exc) == [kind |-> "raise", exc |-> exc]

die(msg) == [kind |-> "exit", msg |-> msg, code |-> 1]

IsReturn(r) == r.kind = "return"

NotCalled == [kind |-> "none"]

(***************************************************************************)
(* Python slices and the bit operators on small ints.                      *)
(***************************************************************************)
Min(a, b) == IF a <= b THEN a ELSE b

Max(a, b) == IF a >= b THEN a ELSE b

\* s[a:b] for 0 <= a
Slice(s, a, b) == SubSeq(s, a + 1, Min(b, Len(s)))

\* a list built by a comprehension, with every element computed once
list(f) == f \o <<>>

\* n bytes, all of them b
Fill(n, b) == list([i \in 1..n |-> b])

Fill0(n) == Fill(n, 0)

\* a Python str is the sequence of its characters
HexChars == <<"0", "1", "2", "3", "4", "5", "6", "7",
              "8", "9", "a", "b", "c", "d", "e", "f">>

\* bytes.hex(): two lowercase hex characters for every byte
hex(b) ==
  list([i \in 1..(2 * Len(b)) |->
          HexChars[(IF i % 2 = 1 THEN b[(i + 1) \div 2] \div 16 ELSE b[i \div 2] % 16) + 1]])

\* s[-n:]
Last(s, n) == SubSeq(s, Max(1, Len(s) - n + 1), Len(s))

\* body of v, v computed once
With(v, body(_)) == body(v)

\* TRUE, once v is computed: a loop computes the value of one pass before it
\* starts the next (an operator's argument is otherwise computed where it is
\* first used, inside the passes that follow)
Computed(v) == v = v

\* a ^ b and a & b on ints >= 0, bit by bit
RECURSIVE XorBits(_, _)
XorBits(a, b) ==
  IF a = 0 THEN b
  ELSE IF b = 0 THEN a
  ELSE ((a + b) % 2) + 2 * XorBits(a \div 2, b \div 2)

RECURSIVE AndBits(_, _)
AndBits(a, b) ==
  IF a = 0 \/ b = 0 THEN 0
  ELSE ((a % 2) * (b % 2)) + 2 * AndBits(a \div 2, b \div 2)

\* a ^ b on single bytes, tabulated once
XorTab == [a \in 0..255 |-> [b \in 0..255 |-> XorBits(a, b)]]

XOR(a, b) == IF a < 256 /\ b < 256 THEN XorTab[a][b] ELSE XorBits(a, b)

AND(a, b) == AndBits(a, b)

(***************************************************************************)
(* Python ints of any size.  An int >= 0 is the sequence of its digits in  *)
(* base 2**12, lowest digit first and no zero digit at the top (the        *)
(* product of two digits, and a column of such products, stays within a    *)
(* machine word).  Nat... are the operations on ints >= 0; Int... are      *)
(* those on signed ints, records of a sign and a magnitude.                *)
(***************************************************************************)
Pow2 == <<1, 2, 4, 8, 16, 32, 64, 128, 256, 512, 1024, 2048, 4096>>

DigitBits == Len(Pow2) - 1

Radix == Pow2[DigitBits + 1]

RECURSIVE NormLen(_, _)
NormLen(s, n) == IF n = 0 THEN 0 ELSE IF s[n] # 0 THEN n ELSE NormLen(s, n - 1)

Norm(s) == SubSeq(s, 1, NormLen(s, Len(s)))

Digit(a, i) == IF i <= Len(a) THEN a[i] ELSE 0

Reverse(s) == list([i \in 1..Len(s) |-> s[Len(s) + 1 - i]])

\* the sum of the numbers f[i] >= 0 (a bag holds no element zero times)
Sum(f) == BagCardinality([i \in DOMAIN f |-> f[i] + 1]) - Cardinality(DOMAIN f)

\* the int >= 0 of a small TLA+ integer
RECURSIVE NatOf(_)
NatOf(n) == IF n = 0 THEN <<>> ELSE <<n % Radix>> \o NatOf(n \div Radix)

NatOne == NatOf(1)

\* the number of bits of e, 0 for e = 0
NatBitLength(e) ==
  IF e = <<>> THEN 0
  ELSE DigitBits * (Len(e) - 1)
       + (CHOOSE n \in 1..DigitBits : Pow2[n] <= e[Len(e)] /\ e[Len(e)] < Pow2[n + 1])

\* bit i of e
NatBit(e, i) == (Digit(e, (i \div DigitBits) + 1) \div Pow2[(i % DigitBits) + 1]) % 2

\* int.from_bytes(b, "big"): digit j holds the bits 12j .. 12j+11, which lie
\* in three bytes at most
int_from_bytes_big(b) ==
  LET le == Reverse(b)
      w(q) == Digit(le, q + 1) + 256 * Digit(le, q + 2) + 65536 * Digit(le, q + 3)
  IN Norm(list([j \in 1..((8 * Len(b) + DigitBits - 1) \div DigitBits) |->
            (w((DigitBits * (j - 1)) \div 8)
               \div Pow2[((DigitBits * (j - 1)) % 8) + 1]) % Radix]))

\* n.to_bytes(length, "big"): OverflowError when n needs more bytes; byte i
\* holds the bits 8i .. 8i+7, which lie in two digits at most
int_to_bytes_big(n, length) ==
  IF NatBitLength(n) > 8 * length THEN Raised("OverflowError")
  ELSE LET w(q) == Digit(n, q + 1) + Radix * Digit(n, q + 2)
       IN Returned(Reverse(list([i \in 1..length |->
            (w((8 * (i - 1)) \div DigitBits)
               \div Pow2[((8 * (i - 1)) % DigitBits) + 1]) % 256])))

\* the digits of a + b + c from digit i on, c the carry into digit i
RECURSIVE AddFrom(_, _, _, _)
AddFrom(a, b, i, c) ==
  IF i > Len(a) /\ i > Len(b)
  THEN IF c = 0 THEN <<>> ELSE <<c>>
  ELSE LET t == Digit(a, i) + Digit(b, i) + c
       IN <<t % Radix>> \o AddFrom(a, b, i + 1, t \div Radix)

\* a + b
NatAdd(a, b) == AddFrom(a, b, 1, 0)

\* n & ((1 << bits) - 1)
NatLowBits(n, bits) ==
  Norm(list([i \in 1..Min(Len(n), (bits \div DigitBits) + 1) |->
         IF i <= bits \div DigitBits THEN n[i] ELSE n[i] % Pow2[(bits % DigitBits) + 1]]))

\* n >> bits
NatShr(n, bits) ==
  LET q == bits \div DigitBits
      r == bits % DigitBits
  IN Norm(list([i \in 1..(Len(n) - q) |->
            (n[q + i] \div Pow2[r + 1]) + (Digit(n, q + i + 1) % Pow2[r + 1]) * Pow2[DigitBits - r + 1]]))

\* 1 << bits
NatPow2(bits) == Fill0(bits \div DigitBits) \o <<Pow2[(bits % DigitBits) + 1]>>

\* -1, 0 or 1 as a < b, a = b or a > b, comparing from digit i down
RECURSIVE CmpFrom(_, _, _)
CmpFrom(a, b, i) ==
  IF i = 0 THEN 0
  ELSE IF a[i] < b[i] THEN -1
  ELSE IF a[i] > b[i] THEN 1
  ELSE CmpFrom(a, b, i - 1)

NatCmp(a, b) ==
  IF Len(a) < Len(b) THEN -1
  ELSE IF Len(a) > Len(b) THEN 1
  ELSE CmpFrom(a, b, Len(a))

\* the digits of a - b - c from digit i on, c the borrow from digit i, a >= b
RECURSIVE SubFrom(_, _, _, _)
SubFrom(a, b, i, c) ==
  IF i > Len(a) THEN <<>>
  ELSE LET t == a[i] - Digit(b, i) - c
       IN <<t % Radix>> \o SubFrom(a, b, i + 1, IF t < 0 THEN 1 ELSE 0)

\* a - b for a >= b
NatSub(a, b) == Norm(SubFrom(a, b, 1, 0))

\* the digits, from digit i on, of the number whose digit columns are cols
RECURSIVE CarryFrom(_, _, _)
CarryFrom(cols, i, c) ==
  IF i > Len(cols) /\ c = 0 THEN <<>>
  ELSE LET t == Digit(cols, i) + c
       IN <<t % Radix>> \o CarryFrom(cols, i + 1, t \div Radix)

\* a * b: column col collects the products a[i] * b[j] with i + j = col + 1
NatMul(a, b) ==
  IF a = <<>> \/ b = <<>> THEN <<>>
  ELSE LET cols == list([col \in 1..(Len(a) + Len(b) - 1) |->
                     Sum([i \in Max(1, col + 1 - Len(b))..Min(Len(a), col) |->
                            a[i] * b[col + 1 - i]])])
       IN Norm(CarryFrom(cols, 1, 0))

\* x % m by folding at bit k, the bit length of m: with c = 2**k - m,
\* hi * 2**k + lo is congruent to hi * c + lo, which is smaller
RECURSIVE ModFold(_, _, _, _)
ModFold(x, m, k, c) ==
  IF NatBitLength(x) <= k THEN x
  ELSE LET x1 == NatAdd(NatMul(NatShr(x, k), c), NatLowBits(x, k))
       IN CASE Computed(x1) -> ModFold(x1, m, k, c)

RECURSIVE ModSubtract(_, _)
ModSubtract(x, m) ==
  IF NatCmp(x, m) < 0 THEN x ELSE ModSubtract(NatSub(x, m), m)

\* x % m for m > 0 (quick for a modulus just below a power of 2, as P and N are)
NatMod(x, m) ==
  IF NatCmp(x, m) < 0 THEN x
  ELSE LET k == NatBitLength(m)
       IN ModSubtract(ModFold(x, m, k, NatSub(NatPow2(k), m)), m)

\* square-and-multiply over the bits hi-1, ..., lo of e, acc the power so far
RECURSIVE PowBits(_, _, _, _, _, _)
PowBits(acc, b, e, hi, lo, m) ==
  IF hi <= lo THEN acc
  ELSE IF hi = lo + 1
  THEN LET sq == NatMod(NatMul(acc, acc), m)
       IN IF NatBit(e, lo) = 1 THEN NatMod(NatMul(sq, b), m) ELSE sq
  ELSE LET mid == (hi + lo) \div 2
           acc1 == PowBits(acc, b, e, hi, mid, m)
       IN CASE Computed(acc1) -> PowBits(acc1, b, e, mid, lo, m)

\* pow(b, e, m) for b >= 0, e >= 0, m > 0
NatPowMod(b, e, m) ==
  PowBits(NatMod(NatOne, m), NatMod(b, m), e, NatBitLength(e), 0, m)

\* the int written with the decimal digits d
RECURSIVE DecimalFrom(_, _, _)
DecimalFrom(d, i, acc) ==
  IF i > Len(d) THEN acc
  ELSE LET acc1 == NatAdd(NatMul(acc, NatOf(10)), NatOf(d[i]))
       IN CASE Computed(acc1) -> DecimalFrom(d, i + 1, acc1)

Decimal(d) == DecimalFrom(d, 1, <<>>)

PyInt(neg, mag) == [neg |-> neg /\ mag # <<>>, mag |-> mag]

IntOf(n) == IF n < 0 THEN PyInt(TRUE, NatOf(-n)) ELSE PyInt(FALSE, NatOf(n))

IntZero == PyInt(FALSE, <<>>)

\* -a
IntNeg(a) == PyInt(~a.neg, a.mag)

\* a + b
IntAdd(a, b) ==
  IF a.neg = b.neg THEN PyInt(a.neg, NatAdd(a.mag, b.mag))
  ELSE IF NatCmp(a.mag, b.mag) >= 0 THEN PyInt(a.neg, NatSub(a.mag, b.mag))
  ELSE PyInt(b.neg, NatSub(b.mag, a.mag))

\* a - b
IntSub(a, b) == IntAdd(a, IntNeg(b))

\* a * b
IntMul(a, b) == PyInt(a.neg # b.neg, NatMul(a.mag, b.mag))

\* a % m for m > 0: never negative
IntMod(a, m) ==
  LET r == NatMod(a.mag, m.mag)
  IN IF a.neg /\ r # <<>> THEN PyInt(FALSE, NatSub(m.mag, r)) ELSE PyInt(FALSE, r)

\* a < b
IntLess(a, b) ==
  IF a.neg # b.neg THEN a.neg
  ELSE IF a.neg THEN NatCmp(a.mag, b.mag) > 0
  ELSE NatCmp(a.mag, b.mag) < 0

\* pow(b, e, m) for e >= 0, m > 0
IntPowMod(b, e, m) == PyInt(FALSE, NatPowMod(IntMod(b, m).mag, e.mag, m.mag))

\* a & 1 and a >> 1 for a >= 0
IntOdd(a) == NatBit(a.mag, 0) = 1

IntHalf(a) == PyInt(FALSE, NatShr(a.mag, 1))

\* int.from_bytes(b, "big")
int_from_bytes(b) == PyInt(FALSE, int_from_bytes_big(b))

\* a.to_bytes(length, "big"): OverflowError for a < 0 and for a too big
int_to_bytes(a, length) ==
  IF a.neg THEN Raised("OverflowError") ELSE int_to_bytes_big(a.mag, length)

(***************************************************************************)
(* A Keccak lane is a Python int used only through the bit operators: it   *)
(* is the set of the positions of its one bits, position 0 the lowest.     *)
(***************************************************************************)
\* a ^ b
BitsXor(a, b) == (a \ b) \cup (b \ a)

\* a & b
BitsAnd(a, b) == a \cap b

\* a | b
BitsOr(a, b) == a \cup b

\* (~a) & b for a, b >= 0: ~a is -a - 1, whose one bits are those a lacks
BitsAndNot(a, b) == b \ a

\* a << n
BitsShl(a, n) == {i + n : i \in a}

\* a >> n
BitsShr(a, n) == {i - n : i \in {j \in a : j >= n}}

\* (1 << 64) - 1
MASK64 == 0..63

\* int.from_bytes(b, "little") of a lane
lane_from_bytes_little(b) ==
  {p \in 0..(8 * Len(b) - 1) : (b[(p \div 8) + 1] \div Pow2[(p % 8) + 1]) % 2 = 1}

\* a lane given by the 8 bytes of its hexadecimal literal
Lane(b) == lane_from_bytes_little(Reverse(b))

Bit(a, p) == IF p \in a THEN 1 ELSE 0

\* lane.to_bytes(length, "little"): OverflowError when the lane needs more bytes
lane_to_bytes_little(a, length) ==
  IF \E p \in a : p >= 8 * length THEN Raised("OverflowError")
  ELSE Returned(list([j \in 1..length |->
         LET p == 8 * (j - 1)
         IN Bit(a, p) + 2 * Bit(a, p + 1) + 4 * Bit(a, p + 2) + 8 * Bit(a, p + 3)
            + 16 * Bit(a, p + 4) + 32 * Bit(a, p + 5) + 64 * Bit(a, p + 6)
            + 128 * Bit(a, p + 7)]))

(***************************************************************************)
(* Keccak-256 (Ethereum) - pure python                                     *)
(***************************************************************************)
_KECCAK_RNDC == <<
  Lane(<<\h00, \h00, \h00, \h00, \h00, \h00, \h00, \h01>>),
  Lane(<<\h00, \h00, \h00, \h00, \h00, \h00, \h80, \h82>>),
  Lane(<<\h80, \h00, \h00, \h00, \h00, \h00, \h80, \h8A>>),
  Lane(<<\h80, \h00, \h00, \h00, \h80, \h00, \h80, \h00>>),
  Lane(<<\h00, \h00, \h00, \h00, \h00, \h00, \h80, \h8B>>),
  Lane(<<\h00, \h00, \h00, \h00, \h80, \h00, \h00, \h01>>),
  Lane(<<\h80, \h00, \h00, \h00, \h80, \h00, \h80, \h81>>),
  Lane(<<\h80, \h00, \h00, \h00, \h00, \h00, \h80, \h09>>),
  Lane(<<\h00, \h00, \h00, \h00, \h00, \h00, \h00, \h8A>>),
  Lane(<<\h00, \h00, \h00, \h00, \h00, \h00, \h00, \h88>>),
  Lane(<<\h00, \h00, \h00, \h00, \h80, \h00, \h80, \h09>>),
  Lane(<<\h00, \h00, \h00, \h00, \h80, \h00, \h00, \h0A>>),
  Lane(<<\h00, \h00, \h00, \h00, \h80, \h00, \h80, \h8B>>),
  Lane(<<\h80, \h00, \h00, \h00, \h00, \h00, \h00, \h8B>>),
  Lane(<<\h80, \h00, \h00, \h00, \h00, \h00, \h80, \h89>>),
  Lane(<<\h80, \h00, \h00, \h00, \h00, \h00, \h80, \h03>>),
  Lane(<<\h80, \h00, \h00, \h00, \h00, \h00, \h80, \h02>>),
  Lane(<<\h80, \h00, \h00, \h00, \h00, \h00, \h00, \h80>>),
  Lane(<<\h00, \h00, \h00, \h00, \h00, \h00, \h80, \h0A>>),
  Lane(<<\h80, \h00, \h00, \h00, \h80, \h00, \h00, \h0A>>),
  Lane(<<\h80, \h00, \h00, \h00, \h80, \h00, \h80, \h81>>),
  Lane(<<\h80, \h00, \h00, \h00, \h00, \h00, \h80, \h80>>),
  Lane(<<\h00, \h00, \h00, \h00, \h80, \h00, \h00, \h01>>),
  Lane(<<\h80, \h00, \h00, \h00, \h80, \h00, \h80, \h08>>)
>>

_KECCAK_ROTC == <<
  <<0, 36, 3, 41, 18>>,
  <<1, 44, 10, 45, 2>>,
  <<62, 6, 43, 15, 61>>,
  <<28, 55, 25, 21, 56>>,
  <<27, 20, 39, 8, 14>>
>>

\* a rotation to the right
RotateRight(x, n0) ==
  LET n == n0 % 64
  IN BitsAnd(BitsOr(BitsShr(x, n), BitsShl(x, 64 - n)), MASK64)

\* the rotation without "& ((1 << 64) - 1)"
RotateUnmasked(x, n0) ==
  LET n == n0 % 64
  IN BitsOr(BitsShl(x, n), BitsShr(x, 64 - n))

_rol64(x, n0) ==
  LET n == n0 % 64
  IN BitsOr(BitsAnd(BitsShl(x, n), MASK64), BitsShr(x, 64 - n))

\* in "for x in range(5): for y in range(5): b[y + 5*((2*x + 3*y) % 5)] = ..."
\* the pass 5*x + y that writes b[j] last, or -1 when none does
LastWriter(j) ==
  LET ws == {k \in 0..24 : (k % 5) + 5 * ((2 * (k \div 5) + 3 * (k % 5)) % 5) = j}
  IN IF ws = {} THEN -1 ELSE CHOOSE k \in ws : \A k2 \in ws : k2 <= k

LastWriters == [j \in 0..24 |-> LastWriter(j)]

\* theta: c, d and "state[x + 5*y] ^= d[x]"; state[i + 1] is lane i
Theta(state) ==
  LET c == list([x \in 1..5 |->
             BitsXor(BitsXor(BitsXor(BitsXor(state[x], state[x + 5]), state[x + 10]),
                           state[x + 15]), state[x + 20])])
      d == list([x \in 1..5 |->
             BitsXor(c[((x - 2) % 5) + 1], _rol64(c[(x % 5) + 1], 1))])
  IN list([i \in 1..25 |-> BitsXor(state[i], d[((i - 1) % 5) + 1])])

\* rho and pi: b = [0] * 25 and the loop that fills it
RhoPi(state) ==
  list([j \in 1..25 |->
          LET k == LastWriters[j - 1]
              x == k \div 5
              y == k % 5
          IN IF k = -1 THEN {}
             ELSE _rol64(state[x + 5 * y + 1], _KECCAK_ROTC[x + 1][y + 1])])

\* chi: "state[x + 5*y] = b[x + 5*y] ^ ((~b[...]) & b[...])"
Chi(b) ==
  list([i \in 1..25 |->
          LET x == (i - 1) % 5
              y == (i - 1) \div 5
          IN BitsXor(b[x + 5 * y + 1],
                    BitsAndNot(b[((x + 1) % 5) + 5 * y + 1],
                              b[((x + 2) % 5) + 5 * y + 1]))])

\* iota: "state[0] ^= rc"
Iota(state, rc) == [state EXCEPT ![1] = BitsXor(state[1], rc)]

\* one pass of "for rc in _KECCAK_RNDC"
KeccakRound(state, rc) == Iota(Chi(RhoPi(Theta(state))), rc)

\* the loop "for rc in _KECCAK_RNDC" from round r on, r = 1..24
RECURSIVE KeccakRounds(_, _)
KeccakRounds(state, r) ==
  IF r > Len(_KECCAK_RNDC) THEN state
  ELSE LET s1 == KeccakRound(state, _KECCAK_RNDC[r])
       IN CASE Computed(s1) -> KeccakRounds(s1, r + 1)

_keccak_f1600(state) == KeccakRounds(state, 1)

\* "for i in range(rate // 8): state[i] ^= lane"
XorLanes(state, block, rate) ==
  list([i \in 1..25 |->
          IF i <= rate \div 8
          THEN BitsXor(state[i],
                 lane_from_bytes_little(Slice(block, (i - 1) * 8, i * 8)))
          ELSE state[i]])

\* the lanes of a block XORed in, followed by the permutation
Absorb(state, block, rate) == _keccak_f1600(XorLanes(state, block, rate))

\* "while off + rate <= len(data)"
RECURSIVE AbsorbData(_, _, _, _)
AbsorbData(state, data, off, rate) ==
  IF off + rate <= Len(data)
  THEN LET s1 == Absorb(state, Slice(data, off, off + rate), rate)
       IN CASE Computed(s1) -> AbsorbData(s1, data, off + rate, rate)
  ELSE [state |-> state, off |-> off]

\* zeros appended until the tail fills its block, "while len(tail) % rate != 0"
RECURSIVE PadZerosToRate(_, _)
PadZerosToRate(tail, rate) ==
  IF Len(tail) % rate # 0 THEN PadZerosToRate(Append(tail, \h00), rate) ELSE tail

\* "while len(tail) % rate != rate - 1: tail.append(0x00)"
RECURSIVE PadZeros(_, _)
PadZeros(tail, rate) ==
  IF Len(tail) % rate # rate - 1 THEN PadZeros(Append(tail, \h00), rate) ELSE tail

\* "while off2 < len(tail)"
RECURSIVE AbsorbTail(_, _, _, _)
AbsorbTail(state, tail, off2, rate) ==
  IF off2 < Len(tail)
  THEN LET s1 == Absorb(state, Slice(tail, off2, off2 + rate), rate)
       IN CASE Computed(s1) -> AbsorbTail(s1, tail, off2 + rate, rate)
  ELSE state

\* the inner "for i in range(rate // 8)" of the squeeze, with its break
RECURSIVE SqueezeLanes(_, _, _, _)
SqueezeLanes(state, i, rate, o) ==
  IF i >= rate \div 8 THEN Returned(o)
  ELSE LET lane == lane_to_bytes_little(state[i + 1], 8)
       IN IF ~IsReturn(lane) THEN lane
          ELSE LET o1 == o \o lane.val
               IN IF Len(o1) >= 32 THEN Returned(o1)
                  ELSE SqueezeLanes(state, i + 1, rate, o1)

\* "while len(out) < 32"
RECURSIVE Squeeze(_, _, _)
Squeeze(state, rate, o) ==
  IF Len(o) < 32
  THEN LET o1 == SqueezeLanes(state, 0, rate, o)
       IN IF ~IsReturn(o1) THEN o1
          ELSE IF Len(o1.val) < 32
               THEN Squeeze(_keccak_f1600(state), rate, o1.val)
               ELSE Squeeze(state, rate, o1.val)
  ELSE Returned(Slice(o, 0, 32))

keccak_256(data) ==
  LET rate == 136
      state0 == list([i \in 1..25 |-> {}])
      full == AbsorbData(state0, data, 0, rate)
      tail == Append(PadZeros(Append(Slice(data, full.off, Len(data)), \h01), rate), \h80)
      state == AbsorbTail(full.state, tail, 0, rate)
  IN Squeeze(state, rate, <<>>)

(***************************************************************************)
(* keccak_256 step by step.  A record s holds its locals: state, off,      *)
(* tail, off2, out (o), and inside _keccak_f1600 the round r and the list  *)
(* b; s.ret is where the permutation returns to.  s.blocks lists the       *)
(* blocks XORed into the state so far and s.calls counts the calls of      *)
(* _keccak_f1600 made while absorbing and while squeezing.                 *)
(***************************************************************************)
KeccakRate == 136

KeccakEntry ==
  [pc |-> "absorb", state |-> list([i \in 1..25 |-> {}]), off |-> 0,
   tail |-> <<>>, off2 |-> 0, o |-> <<>>,
   r |-> 0, b |-> list([i \in 1..25 |-> {}]), ret |-> "none",
   blocks |-> <<>>, calls |-> [absorb |-> 0, squeeze |-> 0],
   result |-> NotCalled]

\* the call of _keccak_f1600(state) after a block was XORed in
Absorbing(s, block, ret) ==
  [s EXCEPT !.state = XorLanes(s.state, block, KeccakRate),
            !.blocks = Append(@, block),
            !.calls.absorb = @ + 1,
            !.pc = "theta", !.r = 1, !.ret = ret]

\* a pass of "while off + rate <= len(data)", up to the permutation call
AbsorbStep(data, s) ==
  IF s.off + KeccakRate <= Len(data)
  THEN Absorbing(s, Slice(data, s.off, s.off + KeccakRate), "absorb")
  ELSE [s EXCEPT !.pc = "pad"]

\* tail = data[off:], 0x01, zeros, 0x80
PadStep(data, s) ==
  [s EXCEPT !.tail = Append(PadZeros(Append(Slice(data, s.off, Len(data)), \h01),
                                     KeccakRate), \h80),
            !.off2 = 0,
            !.pc = "tail"]

\* a pass of "while off2 < len(tail)", up to the permutation call
TailStep(s) ==
  IF s.off2 < Len(s.tail)
  THEN Absorbing(s, Slice(s.tail, s.off2, s.off2 + KeccakRate), "tail")
  ELSE [s EXCEPT !.pc = "squeeze"]

\* a pass of "while len(out) < 32", up to the permutation call, or the return
SqueezeStep(s) ==
  IF Len(s.o) < 32
  THEN With(SqueezeLanes(s.state, 0, KeccakRate, s.o), LAMBDA o1 :
         IF ~IsReturn(o1) THEN [s EXCEPT !.result = o1, !.pc = "done"]
         ELSE IF Len(o1.val) < 32
              THEN [s EXCEPT !.o = o1.val, !.calls.squeeze = @ + 1,
                             !.pc = "theta", !.r = 1, !.ret = "squeeze"]
              ELSE [s EXCEPT !.o = o1.val])
  ELSE [s EXCEPT !.result = Returned(Slice(s.o, 0, 32)), !.pc = "done"]

ThetaStep(s) == [s EXCEPT !.state = Theta(@), !.pc = "rhopi"]

RhoPiStep(s) == [s EXCEPT !.b = RhoPi(s.state), !.pc = "chi"]

ChiStep(s) == [s EXCEPT !.state = Chi(s.b), !.pc = "iota"]

\* state[0] ^= rc, then the next round or the return to the caller's loop
IotaStep(s) ==
  IF s.r < Len(_KECCAK_RNDC)
  THEN [s EXCEPT !.state = Iota(@, _KECCAK_RNDC[s.r]), !.r = @ + 1, !.pc = "theta"]
  ELSE [s EXCEPT !.state = Iota(@, _KECCAK_RNDC[s.r]), !.r = 0, !.pc = s.ret,
                 !.off = IF s.ret = "absorb" THEN @ + KeccakRate ELSE @,
                 !.off2 = IF s.ret = "tail" THEN @ + KeccakRate ELSE @]


(***************************************************************************)
(* secp256k1 (pure python)                                                 *)
(***************************************************************************)
SECP_P == int_from_bytes(
   <<\hFF, \hFF, \hFF, \hFF, \hFF, \hFF, \hFF, \hFF,
     \hFF, \hFF, \hFF, \hFF, \hFF, \hFF, \hFF, \hFF,
     \hFF, \hFF, \hFF, \hFF, \hFF, \hFF, \hFF, \hFF,
     \hFF, \hFF, \hFF, \hFE, \hFF, \hFF, \hFC, \h2F>>)

SECP_N == int_from_bytes(
   <<\hFF, \hFF, \hFF, \hFF, \hFF, \hFF, \hFF, \hFF,
     \hFF, \hFF, \hFF, \hFF, \hFF, \hFF, \hFF, \hFE,
     \hBA, \hAE, \hDC, \hE6, \hAF, \h48, \hA0, \h3B,
     \hBF, \hD2, \h5E, \h8C, \hD0, \h36, \h41, \h41>>)

SECP_GX == PyInt(FALSE, Decimal(
   <<5, 5, 0, 6, 6, 2, 6, 3, 0, 2, 2, 2, 7, 7, 3, 4, 3, 6, 6, 9,
     5, 7, 8, 7, 1, 8, 8, 9, 5, 1, 6, 8, 5, 3, 4, 3, 2, 6, 2, 5,
     0, 6, 0, 3, 4, 5, 3, 7, 7, 7, 5, 9, 4, 1, 7, 5, 5, 0, 0, 1,
     8, 7, 3, 6, 0, 3, 8, 9, 1, 1, 6, 7, 2, 9, 2, 4, 0>>))

SECP_GY == PyInt(FALSE, Decimal(
   <<3, 2, 6, 7, 0, 5, 1, 0, 0, 2, 0, 7, 5, 8, 8, 1, 6, 9, 7, 8,
     0, 8, 3, 0, 8, 5, 1, 3, 0, 5, 0, 7, 0, 4, 3, 1, 8, 4, 4, 7,
     1, 2, 7, 3, 3, 8, 0, 6, 5, 9, 2, 4, 3, 2, 7, 5, 9, 3, 8, 9,
     0, 4, 3, 3, 5, 7, 5, 7, 3, 3, 7, 4, 8, 2, 4, 2, 4>>))

ECPoint(x, y, inf) == [x |-> x, y |-> y, inf |-> inf]

G == ECPoint(SECP_GX, SECP_GY, FALSE)

INF == ECPoint(IntZero, IntZero, TRUE)

_inv_mod(k, p) ==
  IF k = IntZero THEN Raised("ZeroDivisionError")
  ELSE Returned(IntPowMod(k, IntSub(p, IntOf(2)), p))

\* a * inv % SECP_P, or the exception that inv is
TimesInverse(a, inv) ==
  IF ~IsReturn(inv) THEN inv ELSE Returned(IntMod(IntMul(a, inv.val), SECP_P))

\* lam of _ec_add with the doubling slope taken for distinct operands too
SlopeAlwaysDoubling(p1, p2) ==
  TimesInverse(IntMul(IntMul(IntOf(3), p1.x), p1.x),
               _inv_mod(IntMul(IntOf(2), p1.y), SECP_P))

\* lam of _ec_add with the chord slope taken for equal operands too
SlopeAlwaysChord(p1, p2) ==
  TimesInverse(IntSub(p2.y, p1.y), _inv_mod(IntSub(p2.x, p1.x), SECP_P))

\* lam of _ec_add, or the exception _inv_mod raised
Slope(p1, p2) ==
  IF p1.x = p2.x /\ p1.y = p2.y
  THEN TimesInverse(IntMul(IntMul(IntOf(3), p1.x), p1.x),
                    _inv_mod(IntMul(IntOf(2), p1.y), SECP_P))
  ELSE TimesInverse(IntSub(p2.y, p1.y), _inv_mod(IntSub(p2.x, p1.x), SECP_P))

\* x3 of _ec_add as "lam * lam - 2 * p1.x", right for equal operands only
SumXOfDoubling(p1, p2, lam) ==
  IntMod(IntSub(IntSub(IntMul(lam, lam), p1.x), p1.x), SECP_P)

\* x3 of _ec_add
SumX(p1, p2, lam) == IntMod(IntSub(IntSub(IntMul(lam, lam), p1.x), p2.x), SECP_P)

\* ECPoint(x3, y3, False) of _ec_add
SumPoint(p1, p2, lam, x3) ==
  ECPoint(x3, IntMod(IntSub(IntMul(lam, IntSub(p1.x, x3)), p1.y), SECP_P), FALSE)

\* the operands for which _ec_add returns before it computes a slope
EarlyReturn(p1, p2) ==
  p1.inf \/ p2.inf \/ (p1.x = p2.x /\ (p1.y # p2.y \/ p1.y = IntZero))

_ec_add(p1, p2) ==
  IF p1.inf THEN Returned(p2)
  ELSE IF p2.inf THEN Returned(p1)
  ELSE IF p1.x = p2.x /\ (p1.y # p2.y \/ p1.y = IntZero) THEN Returned(INF)
  ELSE With(Slope(p1, p2),
         LAMBDA lam :
           IF ~IsReturn(lam) THEN lam
           ELSE With(SumX(p1, p2, lam.val),
                  LAMBDA x3 : Returned(SumPoint(p1, p2, lam.val, x3))))

\* the loop with its two steps exchanged: the doubling before the addition
RECURSIVE EcMulLoopDoubleFirst(_, _, _)
EcMulLoopDoubleFirst(k, res, add) ==
  IF k = IntZero THEN Returned(res)
  ELSE With(_ec_add(add, add), LAMBDA add1 :
         IF ~IsReturn(add1) THEN add1
         ELSE With(IF IntOdd(k) THEN _ec_add(res, add1.val) ELSE Returned(res),
                LAMBDA res1 :
                  IF ~IsReturn(res1) THEN res1
                  ELSE EcMulLoopDoubleFirst(IntHalf(k), res1.val, add1.val)))

\* the loop "while k" of _ec_mul
RECURSIVE EcMulLoop(_, _, _)
EcMulLoop(k, res, add) ==
  IF k = IntZero THEN Returned(res)
  ELSE With(IF IntOdd(k) THEN _ec_add(res, add) ELSE Returned(res), LAMBDA res1 :
         IF ~IsReturn(res1) THEN res1
         ELSE With(_ec_add(add, add), LAMBDA add1 :
                IF ~IsReturn(add1) THEN add1
                ELSE EcMulLoop(IntHalf(k), res1.val, add1.val)))

RECURSIVE _ec_mul(_, _)
_ec_mul(k, p) ==
  IF IntMod(k, SECP_N) = IntZero \/ p.inf THEN Returned(INF)
  ELSE IF IntLess(k, IntZero)
  THEN _ec_mul(IntNeg(k), ECPoint(p.x, IntMod(IntNeg(p.y), SECP_P), FALSE))
  ELSE EcMulLoop(k, INF, p)

\* b"\x04" + x + y and x + y of the point P, or the exception to_bytes raises
Encoded(P) ==
  IF ~IsReturn(P) THEN P
  ELSE With(int_to_bytes(P.val.x, 32), LAMBDA x :
         IF ~IsReturn(x) THEN x
         ELSE With(int_to_bytes(P.val.y, 32), LAMBDA y :
                IF ~IsReturn(y) THEN y
                ELSE Returned(<<<<4>> \o x.val \o y.val, x.val \o y.val>>)))

\* the range check letting the curve order through
PrivkeyToPubkeyUpToN(priv) ==
  IF Len(priv) # 32 THEN die("Private key must be 32 bytes")
  ELSE With(int_from_bytes(priv), LAMBDA k :
         IF ~IntLess(IntZero, k) \/ IntLess(SECP_N, k)
         THEN die("Private key out of range for secp256k1")
         ELSE Encoded(_ec_mul(k, G)))

\* returns the pair (uncompressed, xy)
privkey_to_pubkey(priv) ==
  IF Len(priv) # 32 THEN die("Private key must be 32 bytes")
  ELSE With(int_from_bytes(priv), LAMBDA k :
         IF ~IntLess(IntZero, k) \/ ~IntLess(k, SECP_N)
         THEN die("Private key out of range for secp256k1")
         ELSE Encoded(_ec_mul(k, G)))

\* "0x" + b.hex() for the bytes b that select takes from the hash h
HexAddress(h, select(_)) ==
  IF ~IsReturn(h) THEN h ELSE Returned(<<"0", "x">> \o hex(select(h.val)))

\* the address taken from the head of the hash
AddressFromFirstBytes(xy64) ==
  IF Len(xy64) # 64 THEN die("Public key must be 64 bytes (x||y)")
  ELSE HexAddress(keccak_256(xy64), LAMBDA h : SubSeq(h, 1, 20))

pubkey_to_address(xy64) ==
  IF Len(xy64) # 64 THEN die("Public key must be 64 bytes (x||y)")
  ELSE HexAddress(keccak_256(xy64), LAMBDA h : Last(h, 20))

\* the test of the loop letting zero through
KeyAcceptedFromZero(b) ==
  With(int_from_bytes(b), LAMBDA k : ~IntLess(k, IntZero) /\ IntLess(k, SECP_N))

\* the test of new_secp256k1_private_key inverted: "not (1 <= k < SECP_N)"
KeyAcceptedOutOfRange(b) ==
  With(int_from_bytes(b), LAMBDA k : ~(~IntLess(k, IntOf(1)) /\ IntLess(k, SECP_N)))

\* the test "1 <= k < SECP_N" of new_secp256k1_private_key on the bytes drawn
KeyAccepted(b) ==
  With(int_from_bytes(b), LAMBDA k : ~IntLess(k, IntOf(1)) /\ IntLess(k, SECP_N))

(***************************************************************************)
(* AES-128 (pure python) for keystore optional                             *)
(***************************************************************************)
_AES_SBOX == <<
  \h63, \h7c, \h77, \h7b, \hf2, \h6b, \h6f, \hc5, \h30, \h01, \h67, \h2b, \hfe, \hd7, \hab, \h76,
  \hca, \h82, \hc9, \h7d, \hfa, \h59, \h47, \hf0, \had, \hd4, \ha2, \haf, \h9c, \ha4, \h72, \hc0,
  \hb7, \hfd, \h93, \h26, \h36, \h3f, \hf7, \hcc, \h34, \ha5, \he5, \hf1, \h71, \hd8, \h31, \h15,
  \h04, \hc7, \h23, \hc3, \h18, \h96, \h05, \h9a, \h07, \h12, \h80, \he2, \heb, \h27, \hb2, \h75,
  \h09, \h83, \h2c, \h1a, \h1b, \h6e, \h5a, \ha0, \h52, \h3b, \hd6, \hb3, \h29, \he3, \h2f, \h84,
  \h53, \hd1, \h00, \hed, \h20, \hfc, \hb1, \h5b, \h6a, \hcb, \hbe, \h39, \h4a, \h4c, \h58, \hcf,
  \hd0, \hef, \haa, \hfb, \h43, \h4d, \h33, \h85, \h45, \hf9, \h02, \h7f, \h50, \h3c, \h9f, \ha8,
  \h51, \ha3, \h40, \h8f, \h92, \h9d, \h38, \hf5, \hbc, \hb6, \hda, \h21, \h10, \hff, \hf3, \hd2,
  \hcd, \h0c, \h13, \hec, \h5f, \h97, \h44, \h17, \hc4, \ha7, \h7e, \h3d, \h64, \h5d, \h19, \h73,
  \h60, \h81, \h4f, \hdc, \h22, \h2a, \h90, \h88, \h46, \hee, \hb8, \h14, \hde, \h5e, \h0b, \hdb,
  \he0, \h32, \h3a, \h0a, \h49, \h06, \h24, \h5c, \hc2, \hd3, \hac, \h62, \h91, \h95, \he4, \h79,
  \he7, \hc8, \h37, \h6d, \h8d, \hd5, \h4e, \ha9, \h6c, \h56, \hf4, \hea, \h65, \h7a, \hae, \h08,
  \hba, \h78, \h25, \h2e, \h1c, \ha6, \hb4, \hc6, \he8, \hdd, \h74, \h1f, \h4b, \hbd, \h8b, \h8a,
  \h70, \h3e, \hb5, \h66, \h48, \h03, \hf6, \h0e, \h61, \h35, \h57, \hb9, \h86, \hc1, \h1d, \h9e,
  \he1, \hf8, \h98, \h11, \h69, \hd9, \h8e, \h94, \h9b, \h1e, \h87, \he9, \hce, \h55, \h28, \hdf,
  \h8c, \ha1, \h89, \h0d, \hbf, \he6, \h42, \h68, \h41, \h99, \h2d, \h0f, \hb0, \h54, \hbb, \h16
>>

_AES_RCON == <<\h00, \h01, \h02, \h04, \h08, \h10, \h20, \h40, \h80, \h1B, \h36>>

_xtime(a) ==
  IF AND(a, \h80) # 0 THEN AND(XOR(a * 2, \h1B), \hFF) ELSE AND(a * 2, \hFF)

_sub_word(w) == list([j \in 1..Len(w) |-> _AES_SBOX[w[j] + 1]])

_rot_word(w) == Slice(w, 1, Len(w)) \o Slice(w, 0, 1)

\* the loop "for i in range(4, 44)" of _aes_key_expand_128; w[i + 1] is word i
RECURSIVE KeyExpandLoop(_, _)
KeyExpandLoop(w, i) ==
  IF i >= 44 THEN w
  ELSE LET temp0 == w[i]
           temp == IF i % 4 = 0
                   THEN LET t == _sub_word(_rot_word(temp0))
                        IN [t EXCEPT ![1] = XOR(t[1], _AES_RCON[(i \div 4) + 1])]
                   ELSE temp0
           word == list([j \in 1..4 |-> AND(XOR(w[i - 3][j], temp[j]), \hFF)])
           w1 == Append(w, word)
       IN CASE Computed(w1) -> KeyExpandLoop(w1, i + 1)

_aes_key_expand_128(key16) ==
  IF Len(key16) # 16 THEN die("AES-128 key must be 16 bytes")
  ELSE LET w0 == list([i \in 1..4 |-> Slice(key16, 4 * (i - 1), 4 * (i - 1) + 4)])
           w == KeyExpandLoop(w0, 4)
           round_keys == list([r \in 1..11 |->
              w[4*(r-1) + 1] \o w[4*(r-1) + 2] \o w[4*(r-1) + 3] \o w[4*(r-1) + 4]])
       IN Returned(round_keys)

_aes_add_round_key(state, rk) == list([i \in 1..16 |-> XorTab[state[i]][rk[i]]])

_aes_sub_bytes(state) == list([i \in 1..16 |-> _AES_SBOX[state[i] + 1]])

\* idx(r, c) of _aes_shift_rows and _aes_mix_columns, as a 1-based position
idx(r, c) == r + 4 * c + 1

\* _aes_shift_rows rotating row r right by r, not left
ShiftRowsRight(state) ==
  LET rows == list([r \in 1..4 |-> list([c \in 1..4 |-> state[idx(r - 1, c - 1)]])])
      rot == list([r \in 1..4 |->
                Slice(rows[r], 4 - (r - 1), 4) \o Slice(rows[r], 0, 4 - (r - 1))])
  IN list([i \in 1..16 |-> rot[((i - 1) % 4) + 1][((i - 1) \div 4) + 1]])

\* rows[r + 1] is row r, rows[r + 1][c + 1] its column c
_aes_shift_rows(state) ==
  LET rows == list([r \in 1..4 |-> list([c \in 1..4 |-> state[idx(r - 1, c - 1)]])])
      rot == list([r \in 1..4 |->
                Slice(rows[r], r - 1, 4) \o Slice(rows[r], 0, r - 1)])
  IN list([i \in 1..16 |-> rot[((i - 1) % 4) + 1][((i - 1) \div 4) + 1]])

\* the body of the loop "for c in range(4)" of _aes_mix_columns: column c
MixColumn(state, c) ==
  LET a == list([r \in 1..4 |-> state[idx(r - 1, c)]])
      t == XOR(XOR(XOR(a[1], a[2]), a[3]), a[4])
      u == a[1]
  IN << XOR(state[idx(0, c)], XOR(t, _xtime(XOR(a[1], a[2])))),
        XOR(state[idx(1, c)], XOR(t, _xtime(XOR(a[2], a[3])))),
        XOR(state[idx(2, c)], XOR(t, _xtime(XOR(a[3], a[4])))),
        XOR(state[idx(3, c)], XOR(t, _xtime(XOR(a[4], u)))) >>

_aes_mix_columns(state) ==
  MixColumn(state, 0) \o MixColumn(state, 1) \o MixColumn(state, 2) \o MixColumn(state, 3)

\* the loop "for rnd in range(1, 10)" of aes128_encrypt_block
RECURSIVE EncryptRounds(_, _, _)
EncryptRounds(state, rks, rnd) ==
  IF rnd >= 10 THEN state
  ELSE LET s1 == _aes_sub_bytes(state)
           s2 == _aes_shift_rows(s1)
           s3 == _aes_mix_columns(s2)
           s4 == _aes_add_round_key(s3, rks[rnd + 1])
       IN CASE Computed(s4) -> EncryptRounds(s4, rks, rnd + 1)

aes128_encrypt_block(key16, block16) ==
  IF Len(block16) # 16 THEN die("AES block must be 16 bytes")
  ELSE LET rks == _aes_key_expand_128(key16)
       IN IF ~IsReturn(rks) THEN rks
          ELSE LET s0 == _aes_add_round_key(block16, rks.val[1])
                   s9 == EncryptRounds(s0, rks.val, 1)
                   s10 == _aes_add_round_key(
                            _aes_shift_rows(_aes_sub_bytes(s9)), rks.val[11])
               IN Returned(s10)

\* the loop of aes128_ctr_crypt over whole blocks only,
\* "for off in range(0, len(data) - 15, 16)": a shorter last block is dropped
RECURSIVE CtrLoopWholeBlocks(_, _, _, _, _)
CtrLoopWholeBlocks(key16, data, off, counter, acc) ==
  IF off + 16 > Len(data) THEN Returned(acc)
  ELSE LET block == Slice(data, off, off + 16)
           ctr_block == int_to_bytes_big(counter, 16)
       IN IF ~IsReturn(ctr_block) THEN ctr_block
          ELSE LET ks == aes128_encrypt_block(key16, ctr_block.val)
               IN IF ~IsReturn(ks) THEN ks
                  ELSE LET acc1 == acc \o list([i \in 1..Len(block) |->
                                                   XorTab[block[i]][ks.val[i]]])
                           counter1 == NatLowBits(NatAdd(counter, NatOne), 128)
                       IN CASE Computed(acc1) /\ Computed(counter1) ->
                                 CtrLoopWholeBlocks(key16, data, off + 16, counter1, acc1)

\* the loop of aes128_ctr_crypt with "counter = counter + 1", the counter not
\* reduced to 128 bits
RECURSIVE CtrLoopUnmasked(_, _, _, _, _)
CtrLoopUnmasked(key16, data, off, counter, acc) ==
  IF off >= Len(data) THEN Returned(acc)
  ELSE LET block == Slice(data, off, off + 16)
           ctr_block == int_to_bytes_big(counter, 16)
       IN IF ~IsReturn(ctr_block) THEN ctr_block
          ELSE LET ks == aes128_encrypt_block(key16, ctr_block.val)
               IN IF ~IsReturn(ks) THEN ks
                  ELSE LET acc1 == acc \o list([i \in 1..Len(block) |->
                                                   XorTab[block[i]][ks.val[i]]])
                           counter1 == NatAdd(counter, NatOne)
                       IN CASE Computed(acc1) /\ Computed(counter1) ->
                                 CtrLoopUnmasked(key16, data, off + 16, counter1, acc1)

\* the loop "for off in range(0, len(data), 16)" of aes128_ctr_crypt
RECURSIVE CtrLoop(_, _, _, _, _)
CtrLoop(key16, data, off, counter, acc) ==
  IF off >= Len(data) THEN Returned(acc)
  ELSE LET block == Slice(data, off, off + 16)
           ctr_block == int_to_bytes_big(counter, 16)
       IN IF ~IsReturn(ctr_block) THEN ctr_block
          ELSE LET ks == aes128_encrypt_block(key16, ctr_block.val)
               IN IF ~IsReturn(ks) THEN ks
                  ELSE LET acc1 == acc \o list([i \in 1..Len(block) |->
                                                   XorTab[block[i]][ks.val[i]]])
                           counter1 == NatLowBits(NatAdd(counter, NatOne), 128)
                       IN CASE Computed(acc1) /\ Computed(counter1) ->
                                 CtrLoop(key16, data, off + 16, counter1, acc1)

aes128_ctr_crypt(key16, iv16, data) ==
  IF Len(iv16) # 16 THEN die("CTR IV must be 16 bytes")
  ELSE CtrLoop(key16, data, 0, int_from_bytes_big(iv16), <<>>)

(***************************************************************************)
(* A script that calls the cipher: aes128_ctr_crypt on its inputs, then    *)
(* aes128_ctr_crypt again on what the first call returned (the decryption  *)
(* of a keystore reader), or aes128_encrypt_block on the data as one block.*)
(***************************************************************************)
MaxDataLen == 18

KEY_FIPS == <<\h00, \h01, \h02, \h03, \h04, \h05, \h06, \h07,
              \h08, \h09, \h0a, \h0b, \h0c, \h0d, \h0e, \h0f>>

BLOCK_FIPS == <<\h00, \h11, \h22, \h33, \h44, \h55, \h66, \h77,
                \h88, \h99, \haa, \hbb, \hcc, \hdd, \hee, \hff>>

CIPHER_FIPS == <<\h69, \hc4, \he0, \hd8, \h6a, \h7b, \h04, \h30,
                 \hd8, \hcd, \hb7, \h80, \h70, \hb4, \hc5, \h5a>>

\* n bytes of no particular shape
Pattern(n) == list([i \in 1..n |-> (i * 37 + 11) % 256])

AesKeys == {KEY_FIPS, Fill(16, \hA5), <<>>, Pattern(15), Pattern(17)}

AesIVs == {Fill(16, 0), Fill(16, \hFF), Pattern(15), Pattern(17)}

AesData == {Pattern(n) : n \in 0..MaxDataLen} \cup {BLOCK_FIPS}

AesInit ==
  /\ pc = "start"
  /\ inp \in [key : AesKeys, iv : AesIVs, data : AesData]
  /\ out = [ct |-> NotCalled, pt |-> NotCalled, blk |-> NotCalled]

Encrypt ==
  /\ pc = "start"
  /\ out' = [out EXCEPT !.ct = aes128_ctr_crypt(inp.key, inp.iv, inp.data)]
  /\ pc' = "encrypted"
  /\ UNCHANGED inp

Decrypt ==
  /\ pc = "encrypted"
  /\ IsReturn(out.ct)
  /\ out' = [out EXCEPT !.pt = aes128_ctr_crypt(inp.key, inp.iv, out.ct.val)]
  /\ pc' = "decrypted"
  /\ UNCHANGED inp

EncryptBlock ==
  /\ pc = "start"
  /\ out' = [out EXCEPT !.blk = aes128_encrypt_block(inp.key, inp.data)]
  /\ pc' = "block"
  /\ UNCHANGED inp

AesNext == Encrypt \/ Decrypt \/ EncryptBlock

SpecAes == AesInit /\ [][AesNext]_vars

(* C1: CTR involution.  For every 16-byte key, every 16-byte IV and every  *)
(* data string, of any length, the first aes128_ctr_crypt call returns and *)
(* the second call, made with the same key and IV on what the first        *)
(* returned, returns the data.                                             *)
CtrInvolution ==
  (Len(inp.key) = 16 /\ Len(inp.iv) = 16) =>
    /\ pc = "encrypted" => IsReturn(out.ct)
    /\ pc = "decrypted" => out.pt = Returned(inp.data)

\* a 17-byte string was encrypted to something else and decrypted
CtrInvolutionWitness ==
  /\ pc = "decrypted"
  /\ Len(inp.key) = 16 /\ inp.iv = Fill(16, \hFF)
  /\ Len(inp.data) = 17
  /\ SubSeq(out.ct.val, 1, 16) # SubSeq(inp.data, 1, 16)
  /\ out.ct.val[17] # inp.data[17]
  /\ out.pt.val = inp.data

(* C5: cipher size validation, as claimed.  A counter-mode call with a key *)
(* that is not 16 bytes exits with the key-length message (or, the IV      *)
(* being checked first, with the IV-length message when the IV is wrong    *)
(* too), a call with an IV that is not 16 bytes exits with the IV-length   *)
(* message, for every data length including 0; a single-block call with a  *)
(* block that is not 16 bytes exits with the block-length message; none of *)
(* them returns.                                                           *)
CipherSizeValidation ==
  /\ (pc = "encrypted" /\ Len(inp.iv) # 16) =>
        out.ct = die("CTR IV must be 16 bytes")
  /\ (pc = "encrypted" /\ Len(inp.iv) = 16 /\ Len(inp.key) # 16) =>
        out.ct = die("AES-128 key must be 16 bytes")
  /\ (pc = "block" /\ Len(inp.data) # 16) =>
        out.blk = die("AES block must be 16 bytes")

(* C10: cipher vector (FIPS-197).  aes128_encrypt_block with key           *)
(* 000102030405060708090a0b0c0d0e0f on block                               *)
(* 00112233445566778899aabbccddeeff returns                                *)
(* 69c4e0d86a7b0430d8cdb78070b4c55a.                                       *)
CipherVector ==
  (pc = "block" /\ inp.key = KEY_FIPS /\ inp.data = BLOCK_FIPS) =>
    out.blk = Returned(CIPHER_FIPS)

\* the block call of the vector was made
CipherVectorWitness ==
  pc = "block" /\ inp.key = KEY_FIPS /\ inp.data = BLOCK_FIPS /\ IsReturn(out.blk)

\* the 16-byte big-endian encoding of (IV + i) mod 2^128
CounterBlock(iv16, i) ==
  int_to_bytes_big(
    NatMod(NatAdd(int_from_bytes_big(iv16), NatOf(i)), NatPow2(128)), 16).val

\* bytes 16 i + 1 .. of ct are those of data XORed with the leading bytes of ks
BlockIsXor(ct, data, i, ks) ==
  \A j \in (16 * i + 1)..Min(16 * i + 16, Len(data)) :
    ct[j] = XorBits(data[j], ks[j - 16 * i])

(* C11: counter mode.  For every 16-byte key, every 16-byte IV and every   *)
(* data string, aes128_ctr_crypt returns exactly len(data) bytes, and its  *)
(* i-th 16-byte block (the last one possibly shorter) is the data block    *)
(* XORed byte for byte with the leading bytes of aes128_encrypt_block of   *)
(* the 16-byte big-endian encoding of (IV + i) mod 2^128; after the IV of  *)
(* sixteen 0xFF bytes the counter block is sixteen zero bytes.             *)
CounterMode ==
  (pc = "encrypted" /\ Len(inp.key) = 16 /\ Len(inp.iv) = 16) =>
    /\ IsReturn(out.ct)
    /\ Len(out.ct.val) = Len(inp.data)
    /\ \A i \in 0..((Len(inp.data) - 1) \div 16) :
         With(aes128_encrypt_block(inp.key, CounterBlock(inp.iv, i)).val,
              LAMBDA ks : BlockIsXor(out.ct.val, inp.data, i, ks))
    /\ (inp.iv = Fill(16, \hFF) /\ Len(inp.data) > 16) =>
         With(aes128_encrypt_block(inp.key, Fill(16, 0)).val,
              LAMBDA ks : BlockIsXor(out.ct.val, inp.data, 1, ks))

\* 18 bytes were encrypted from the IV of sixteen 0xFF bytes: the second
\* block used the counter after the wrap
CounterModeWitness ==
  /\ pc = "encrypted"
  /\ inp.key = KEY_FIPS /\ inp.iv = Fill(16, \hFF)
  /\ Len(inp.data) = 18
  /\ IsReturn(out.ct)
  /\ Len(out.ct.val) = 18
  /\ out.ct.val[17] # inp.data[17]

(***************************************************************************)
(* A script that hashes: one keccak_256 call on its input.                 *)
(***************************************************************************)
MaxHashLen == 48

HashInputs ==
  {Pattern(n) : n \in 0..MaxHashLen} \cup {Fill(135, 0), Fill(136, \hFF), Fill(137, 1)}

HashInit ==
  /\ pc = "start"
  /\ inp \in HashInputs
  /\ out = NotCalled

Hash ==
  /\ pc = "start"
  /\ out' = keccak_256(inp)
  /\ pc' = "hashed"
  /\ UNCHANGED inp

HashNext == Hash

SpecKeccak == HashInit /\ [][HashNext]_vars

\* the digest of the empty string, in hex: as the documentation prints it,
\* and Keccak-256's
DocumentedEmptyDigest ==
  <<"c", "5", "d", "2", "4", "6", "0", "1", "8", "6", "f", "7", "2", "3", "3", "c",
  "9", "2", "7", "e", "7", "d", "b", "2", "d", "c", "c", "7", "0", "3", "c", "0",
  "e", "5", "0", "0", "b", "6", "5", "3", "c", "a", "8", "2", "2", "7", "3", "b",
  "7", "b", "f", "a", "d", "8", "0", "4", "5", "d", "8", "5", "a", "7", "0">>

KeccakEmptyDigest ==
  <<"c", "5", "d", "2", "4", "6", "0", "1", "8", "6", "f", "7", "2", "3", "3", "c",
  "9", "2", "7", "e", "7", "d", "b", "2", "d", "c", "c", "7", "0", "3", "c", "0",
  "e", "5", "0", "0", "b", "6", "5", "3", "c", "a", "8", "2", "2", "7", "3", "b",
  "7", "b", "f", "a", "d", "8", "0", "4", "5", "d", "8", "5", "a", "4", "7", "0">>

(* C9, as claimed: keccak_256 of the empty byte string returns the digest  *)
(* written c5d2460186f7233c927e7db2dcc703c0e500b653ca82273b7bfad8045d85a70 *)
(* in hex.                                                                 *)
HashVectorAsDocumented ==
  (pc = "hashed" /\ inp = <<>>) =>
    (IsReturn(out) /\ hex(out.val) = DocumentedEmptyDigest)

(* C9, amended: keccak_256 of the empty byte string returns the 32 bytes   *)
(* c5d2460186f7233c927e7db2dcc703c0e500b653ca82273b7bfad8045d85a470, the   *)
(* documented digits with the missing digit 4 before the last two.         *)
HashVector ==
  (pc = "hashed" /\ inp = <<>>) =>
    (IsReturn(out) /\ Len(out.val) = 32 /\ hex(out.val) = KeccakEmptyDigest)

\* the empty string was hashed to 32 bytes
HashVectorWitness ==
  /\ pc = "hashed"
  /\ inp = <<>>
  /\ IsReturn(out)
  /\ Len(out.val) = 32
  /\ out.val[1] = \hC5

(***************************************************************************)
(* A script that calls one operation of the curve on one argument:         *)
(* _ec_mul(k, G), privkey_to_pubkey(priv) followed by pubkey_to_address on *)
(* the xy it returned, or pubkey_to_address(xy64).                         *)
(***************************************************************************)
MaxScalar == 3

MaxXyLen == 66

\* the 32 bytes of the key k
KeyBytes(k) == int_to_bytes(k, 32).val

Scalars == {IntOf(k) : k \in -1..MaxScalar} \cup {SECP_N, IntAdd(SECP_N, SECP_N)}

PrivInputs ==
  {KeyBytes(IntOf(k)) : k \in 0..MaxScalar}
    \cup {KeyBytes(SECP_N), KeyBytes(IntAdd(SECP_N, IntOf(1))), Fill(32, \hFF),
          <<>>, Fill0(30) \o <<1>>, Fill0(32) \o <<1>>, Fill(31, \hFF), Fill(33, \hFF)}

XyInputs == {Pattern(n) : n \in 0..MaxXyLen} \cup {Fill0(64), Fill(128, 7)}

CurveInit ==
  /\ pc = "start"
  /\ inp \in [op : {"_ec_mul"}, arg : Scalars]
        \cup [op : {"privkey_to_pubkey"}, arg : PrivInputs]
        \cup [op : {"pubkey_to_address"}, arg : XyInputs]
  /\ out = [res |-> NotCalled, addr |-> NotCalled]

EcMul ==
  /\ pc = "start"
  /\ inp.op = "_ec_mul"
  /\ out' = [out EXCEPT !.res = _ec_mul(inp.arg, G)]
  /\ pc' = "done"
  /\ UNCHANGED inp

PrivkeyToPubkey ==
  /\ pc = "start"
  /\ inp.op = "privkey_to_pubkey"
  /\ out' = [out EXCEPT !.res = privkey_to_pubkey(inp.arg)]
  /\ pc' = "done"
  /\ UNCHANGED inp

\* addr = pubkey_to_address(xy) on the xy of the pair returned
AddressOfKey ==
  /\ pc = "done"
  /\ inp.op = "privkey_to_pubkey"
  /\ IsReturn(out.res)
  /\ out' = [out EXCEPT !.addr = pubkey_to_address(out.res.val[2])]
  /\ pc' = "address"
  /\ UNCHANGED inp

PubkeyToAddress ==
  /\ pc = "start"
  /\ inp.op = "pubkey_to_address"
  /\ out' = [out EXCEPT !.addr = pubkey_to_address(inp.arg)]
  /\ pc' = "address"
  /\ UNCHANGED inp

CurveNext == EcMul \/ PrivkeyToPubkey \/ AddressOfKey \/ PubkeyToAddress

SpecCurve == CurveInit /\ [][CurveNext]_vars

(* C7: curve identity.  _ec_mul(1, G) returns G unchanged and _ec_mul(N, G),*)
(* N the curve order, returns the point at infinity.                       *)
CurveIdentity ==
  (pc = "done" /\ inp.op = "_ec_mul") =>
    /\ inp.arg = IntOf(1) => out.res = Returned(G)
    /\ inp.arg = SECP_N => (IsReturn(out.res) /\ out.res.val.inf)

\* _ec_mul(1, G) has returned the generator, a point that is not at infinity
CurveIdentityWitness ==
  /\ pc = "done"
  /\ inp.op = "_ec_mul"
  /\ inp.arg = IntOf(1)
  /\ IsReturn(out.res)
  /\ ~out.res.val.inf
  /\ out.res.val.x = SECP_GX

\* k * G by its definition: G added to itself k - 1 times, for k >= 1
RECURSIVE Multiple(_)
Multiple(k) ==
  IF k = IntOf(1) THEN G ELSE _ec_add(Multiple(IntSub(k, IntOf(1))), G).val

\* the bytes of the curve order, from its standard hexadecimal form
OrderBytes ==
  <<\hFF, \hFF, \hFF, \hFF, \hFF, \hFF, \hFF, \hFF,
    \hFF, \hFF, \hFF, \hFF, \hFF, \hFF, \hFF, \hFE,
    \hBA, \hAE, \hDC, \hE6, \hAF, \h48, \hA0, \h3B,
    \hBF, \hD2, \h5E, \h8C, \hD0, \h36, \h41, \h41>>

\* a < b for byte strings of one length read as big-endian numbers
BytesLess(a, b) ==
  \E i \in 1..Len(a) : a[i] < b[i] /\ \A j \in 1..(i - 1) : a[j] = b[j]

\* priv is 32 bytes with 1 <= k <= N - 1
ValidKey(priv) ==
  /\ Len(priv) = 32
  /\ \E i \in 1..32 : priv[i] # 0
  /\ BytesLess(priv, OrderBytes)

(* C4: privkey_to_pubkey exits with an error and returns no public key when *)
(* its input is not exactly 32 bytes or its integer is 0 or >= N; for an  *)
(* input with 1 <= k <= N-1 it returns the pair of 0x04 || x || y (65      *)
(* bytes) and x || y (64 bytes), x and y the 32-byte big-endian            *)
(* coordinates of the point k*G.                                           *)
PrivkeyToPubkeyContract ==
  (pc = "done" /\ inp.op = "privkey_to_pubkey") =>
    IF ValidKey(inp.arg)
    THEN LET kG == Multiple(int_from_bytes(inp.arg))
             xy == int_to_bytes(kG.x, 32).val \o int_to_bytes(kG.y, 32).val
         IN /\ ~kG.inf
            /\ Len(xy) = 64
            /\ out.res = Returned(<<<<4>> \o xy, xy>>)
    ELSE out.res \in {die("Private key must be 32 bytes"),
                      die("Private key out of range for secp256k1")}

\* the key 2 gave the public key of 2G, which is not G
PrivkeyToPubkeyWitness ==
  /\ pc = "done"
  /\ inp.op = "privkey_to_pubkey"
  /\ inp.arg = KeyBytes(IntOf(2))
  /\ IsReturn(out.res)
  /\ Len(out.res.val[1]) = 65
  /\ Len(out.res.val[2]) = 64
  /\ SubSeq(out.res.val[2], 1, 4) = <<\hC6, \h04, \h7F, \h94>>

\* bytes.fromhex, for lowercase digits: the bytes a hex string stands for
HexValue(c) == CHOOSE v \in 0..15 : HexChars[v + 1] = c

fromhex(s) == list([i \in 1..(Len(s) \div 2) |-> 16 * HexValue(s[2 * i - 1]) + HexValue(s[2 * i])])

IsLowerHex(s) == \A i \in 1..Len(s) : \E v \in 1..16 : HexChars[v] = s[i]

(* C6: for a 64-byte xy, pubkey_to_address returns '0x' followed by 40     *)
(* lowercase hex characters that spell the last 20 bytes of keccak_256(xy);*)
(* for an input of any other length it exits with the public-key-length    *)
(* error and returns no address.                                           *)
AddressContract ==
  (pc = "address" /\ inp.op = "pubkey_to_address") =>
    IF Len(inp.arg) = 64
    THEN /\ IsReturn(out.addr)
         /\ Len(out.addr.val) = 42
         /\ SubSeq(out.addr.val, 1, 2) = <<"0", "x">>
         /\ IsLowerHex(SubSeq(out.addr.val, 3, 42))
         /\ fromhex(SubSeq(out.addr.val, 3, 42)) = SubSeq(keccak_256(inp.arg).val, 13, 32)
    ELSE out.addr = die("Public key must be 64 bytes (x||y)")

\* the address of 64 zero bytes was returned, and it is not the head of the hash
AddressContractWitness ==
  /\ pc = "address"
  /\ inp.op = "pubkey_to_address"
  /\ inp.arg = Fill0(64)
  /\ IsReturn(out.addr)
  /\ Len(out.addr.val) = 42
  /\ fromhex(SubSeq(out.addr.val, 3, 42)) # SubSeq(keccak_256(inp.arg).val, 1, 20)

(***************************************************************************)
(* new_secp256k1_private_key: one pass of its loop for every 32 bytes that *)
(* secrets.token_bytes delivers; inp is what the source has delivered.     *)
(***************************************************************************)
MaxDraws == 3

\* some of the values of secrets.token_bytes(32)
Tokens32 ==
  {Fill0(32), KeyBytes(IntOf(1)), KeyBytes(IntOf(2)), Pattern(32),
   KeyBytes(IntSub(SECP_N, IntOf(1))), KeyBytes(SECP_N),
   KeyBytes(IntAdd(SECP_N, IntOf(1))), Fill(32, \hFF)}

KeygenInit ==
  /\ pc = "loop"
  /\ inp = <<>>
  /\ out = NotCalled

Draw ==
  /\ pc = "loop"
  /\ Len(inp) < MaxDraws
  /\ \E b \in Tokens32 :
       /\ inp' = Append(inp, b)
       /\ IF KeyAccepted(b)
          THEN pc' = "returned" /\ out' = Returned(b)
          ELSE pc' = "loop" /\ out' = out

KeygenNext == Draw

SpecKeygen == KeygenInit /\ [][KeygenNext]_vars

(* C3: whatever bytes the random source delivers, a value returned by      *)
(* new_secp256k1_private_key is a 32-byte string whose big-endian integer  *)
(* k has 1 <= k < N: never the all-zero bytes, never a value >= the curve  *)
(* order.  It is the 32 bytes drawn last.                                  *)
KeyInRange ==
  pc = "returned" =>
    /\ IsReturn(out)
    /\ Len(out.val) = 32
    /\ out.val # Fill0(32)
    /\ BytesLess(out.val, OrderBytes)
    /\ out.val = inp[Len(inp)]

\* N - 1 was returned after zero and N were drawn and discarded
KeyInRangeWitness ==
  /\ pc = "returned"
  /\ Len(inp) = 3
  /\ inp[1] = Fill0(32)
  /\ inp[2] = OrderBytes
  /\ out.val[32] = \h40
  /\ SubSeq(out.val, 1, 31) = SubSeq(OrderBytes, 1, 31)

(***************************************************************************)
(* generate_eoa.  A password is the sequence of its code points; the       *)
(* directory holds at most three files, the keystore's content being the   *)
(* record that json.dumps writes.                                          *)
(***************************************************************************)
PyNone == [kind |-> "None"]

Str(s) == [kind |-> "str", s |-> s]

\* str.encode("utf-8"), for code points below 65536
Utf8(cp) ==
  IF cp < 128 THEN <<cp>>
  ELSE IF cp < 2048 THEN <<192 + (cp \div 64), 128 + (cp % 64)>>
  ELSE <<224 + (cp \div 4096), 128 + ((cp \div 64) % 64), 128 + (cp % 64)>>

RECURSIVE encode(_)
encode(s) == IF s = <<>> THEN <<>> ELSE Utf8(s[1]) \o encode(Tail(s))

UpperChars == <<"A", "B", "C", "D", "E", "F", "G", "H", "I", "J", "K", "L", "M",
                "N", "O", "P", "Q", "R", "S", "T", "U", "V", "W", "X", "Y", "Z">>

LowerChars == <<"a", "b", "c", "d", "e", "f", "g", "h", "i", "j", "k", "l", "m",
                "n", "o", "p", "q", "r", "s", "t", "u", "v", "w", "x", "y", "z">>

\* str.lower()
lower(s) ==
  list([i \in 1..Len(s) |->
          IF \E j \in 1..26 : UpperChars[j] = s[i]
          THEN LowerChars[CHOOSE j \in 1..26 : UpperChars[j] = s[i]]
          ELSE s[i]])

\* hashlib.pbkdf2_hmac, a function of the library: dklen bytes that depend on
\* the password, the salt and the iteration count, and on nothing else
pbkdf2_hmac(hash_name, password, salt, iterations, dklen) ==
  list([i \in 1..dklen |->
          (Sum([j \in 1..Len(password) |-> password[j] * (i + j)])
             + Sum([j \in 1..Len(salt) |-> salt[j] * (2 * i + 3 * j)])
             + (iterations % 251) * i + 7) % 256])

\* the keystore with the private key encrypted under the second half of the
\* derived key
KeystoreUnderMacKey(priv, addr, password, salt, iv, id) ==
  With(pbkdf2_hmac("sha256", encode(password), salt, 262144, 32), LAMBDA derived :
    With(aes128_ctr_crypt(Slice(derived, 16, 32), iv, priv), LAMBDA ciphertext :
      IF ~IsReturn(ciphertext) THEN ciphertext
      ELSE With(keccak_256(Slice(derived, 16, 32) \o ciphertext.val), LAMBDA mac :
             IF ~IsReturn(mac) THEN mac
             ELSE Returned(
               [version |-> 3,
                id      |-> id,
                address |-> lower(Slice(addr, 2, Len(addr))),
                crypto  |->
                  [cipher       |-> "aes-128-ctr",
                   cipherparams |-> [iv |-> hex(iv)],
                   ciphertext   |-> hex(ciphertext.val),
                   kdf          |-> "pbkdf2",
                   kdfparams    |-> [dklen |-> 32, c |-> 262144,
                                     prf |-> "hmac-sha256", salt |-> hex(salt)],
                   mac          |-> hex(mac.val)]]))))

\* the keystore with the mac taken over the ciphertext followed by the second
\* half of the derived key
KeystoreMacKeyLast(priv, addr, password, salt, iv, id) ==
  With(pbkdf2_hmac("sha256", encode(password), salt, 262144, 32), LAMBDA derived :
    With(aes128_ctr_crypt(Slice(derived, 0, 16), iv, priv), LAMBDA ciphertext :
      IF ~IsReturn(ciphertext) THEN ciphertext
      ELSE With(keccak_256(ciphertext.val \o Slice(derived, 16, 32)), LAMBDA mac :
             IF ~IsReturn(mac) THEN mac
             ELSE Returned(
               [version |-> 3,
                id      |-> id,
                address |-> lower(Slice(addr, 2, Len(addr))),
                crypto  |->
                  [cipher       |-> "aes-128-ctr",
                   cipherparams |-> [iv |-> hex(iv)],
                   ciphertext   |-> hex(ciphertext.val),
                   kdf          |-> "pbkdf2",
                   kdfparams    |-> [dklen |-> 32, c |-> 262144,
                                     prf |-> "hmac-sha256", salt |-> hex(salt)],
                   mac          |-> hex(mac.val)]]))))

\* the keystore with "address": addr.lower(), the prefix kept
KeystoreAddressWithPrefix(priv, addr, password, salt, iv, id) ==
  With(pbkdf2_hmac("sha256", encode(password), salt, 262144, 32), LAMBDA derived :
    With(aes128_ctr_crypt(Slice(derived, 0, 16), iv, priv), LAMBDA ciphertext :
      IF ~IsReturn(ciphertext) THEN ciphertext
      ELSE With(keccak_256(Slice(derived, 16, 32) \o ciphertext.val), LAMBDA mac :
             IF ~IsReturn(mac) THEN mac
             ELSE Returned(
               [version |-> 3,
                id      |-> id,
                address |-> lower(addr),
                crypto  |->
                  [cipher       |-> "aes-128-ctr",
                   cipherparams |-> [iv |-> hex(iv)],
                   ciphertext   |-> hex(ciphertext.val),
                   kdf          |-> "pbkdf2",
                   kdfparams    |-> [dklen |-> 32, c |-> 262144,
                                     prf |-> "hmac-sha256", salt |-> hex(salt)],
                   mac          |-> hex(mac.val)]]))))

\* the keystore record of generate_eoa, from the key derivation to the dict
Keystore(priv, addr, password, salt, iv, id) ==
  With(pbkdf2_hmac("sha256", encode(password), salt, 262144, 32), LAMBDA derived :
    With(aes128_ctr_crypt(Slice(derived, 0, 16), iv, priv), LAMBDA ciphertext :
      IF ~IsReturn(ciphertext) THEN ciphertext
      ELSE With(keccak_256(Slice(derived, 16, 32) \o ciphertext.val), LAMBDA mac :
             IF ~IsReturn(mac) THEN mac
             ELSE Returned(
               [version |-> 3,
                id      |-> id,
                address |-> lower(Slice(addr, 2, Len(addr))),
                crypto  |->
                  [cipher       |-> "aes-128-ctr",
                   cipherparams |-> [iv |-> hex(iv)],
                   ciphertext   |-> hex(ciphertext.val),
                   kdf          |-> "pbkdf2",
                   kdfparams    |-> [dklen |-> 32, c |-> 262144,
                                     prf |-> "hmac-sha256", salt |-> hex(salt)],
                   mac          |-> hex(mac.val)]]))))

Absent == [kind |-> "absent"]

\* write_text_secure(p, s, mode)
File(p, s, mode) == [kind |-> "file", path |-> p, text |-> s, mode |-> mode]

MaxEoaKey == 2

\* some of the values of secrets.token_bytes(32), of secrets.token_bytes(16)
\* (salt and iv), of uuid.uuid4() and of the clock
EoaTokens32 == {KeyBytes(IntOf(k)) : k \in 0..MaxEoaKey} \cup {KeyBytes(SECP_N)}

Salts == {Fill0(16), Pattern(16), Fill(16, \hFF)}

Ivs == {Fill0(16), Pattern(16), Fill(16, \hFF), Fill(15, \hFF) \o <<\hFE>>}

Uuids == {"7d3c0a52-5b1e-4d8a-9c55-0f4e2a6b8c11"}

Times == {"2026-01-01T00-00-00Z"}

Passwords == {PyNone, Str(<<>>), Str(<<112, 119>>), Str(<<233, 8364>>)}

EoaInit ==
  /\ pc = "start"
  /\ inp \in [make_keystore : {TRUE}, keystore_password : Passwords]
        \cup [make_keystore : {FALSE}, keystore_password : {PyNone}]
  /\ out = [priv |-> <<>>, addr |-> <<>>, salt |-> <<>>, iv |-> <<>>,
            files |-> [privateKey |-> Absent, address |-> Absent, keystore |-> Absent],
            result |-> NotCalled]

\* priv = new_secp256k1_private_key(): a pass of its loop
EoaNewKey ==
  /\ pc = "start"
  /\ \E b \in EoaTokens32 :
       IF KeyAccepted(b)
       THEN pc' = "key" /\ out' = [out EXCEPT !.priv = b]
       ELSE UNCHANGED <<pc, out>>
  /\ UNCHANGED inp

\* from privkey_to_pubkey to the two files, and on to the return when no
\* keystore is asked for
EoaDerive ==
  /\ pc = "key"
  /\ With(privkey_to_pubkey(out.priv), LAMBDA pub :
       IF ~IsReturn(pub)
       THEN pc' = "exit" /\ out' = [out EXCEPT !.result = pub]
       ELSE With(pubkey_to_address(pub.val[2]), LAMBDA addr :
              IF ~IsReturn(addr)
              THEN pc' = "exit" /\ out' = [out EXCEPT !.result = addr]
              ELSE With([out.files EXCEPT
                           !.privateKey = File(<<"privateKey">>, hex(out.priv) \o <<"\n">>, 384),
                           !.address = File(<<"address">>, addr.val \o <<"\n">>, 384)],
                     LAMBDA files :
                       IF inp.make_keystore
                       THEN /\ pc' = "salt"
                            /\ out' = [out EXCEPT !.addr = addr.val, !.files = files]
                       ELSE /\ pc' = "done"
                            /\ out' = [out EXCEPT !.addr = addr.val, !.files = files,
                                         !.result = Returned([address |-> addr.val,
                                                              priv_hex |-> hex(out.priv),
                                                              keystore_path |-> PyNone])])))
  /\ UNCHANGED inp

\* salt = secrets.token_bytes(16)
EoaSalt ==
  /\ pc = "salt"
  /\ \E salt \in Salts : out' = [out EXCEPT !.salt = salt]
  /\ pc' = "iv"
  /\ UNCHANGED inp

\* from iv = secrets.token_bytes(16) to the keystore file and the return
EoaKeystore ==
  /\ pc = "iv"
  /\ \E iv \in Ivs, id \in Uuids, now \in Times :
       With(Keystore(out.priv, out.addr,
                     IF inp.keystore_password = PyNone THEN <<>> ELSE inp.keystore_password.s,
                     out.salt, iv, id),
            LAMBDA keystore :
              IF ~IsReturn(keystore)
              THEN pc' = "exit" /\ out' = [out EXCEPT !.result = keystore]
              ELSE With(<<"UTC--", now, "--", lower(Slice(out.addr, 2, Len(out.addr)))>>,
                     LAMBDA ks_path :
                       /\ pc' = "done"
                       /\ out' = [out EXCEPT
                                    !.iv = iv,
                                    !.files.keystore = File(ks_path, [json |-> keystore.val], 384),
                                    !.result = Returned([address |-> out.addr,
                                                         priv_hex |-> hex(out.priv),
                                                         keystore_path |-> ks_path])]))
  /\ UNCHANGED inp

EoaNext == EoaNewKey \/ EoaDerive \/ EoaSalt \/ EoaKeystore

SpecEoa == EoaInit /\ [][EoaNext]_vars

\* what a reader of the keystore record rec gets with the password pw:
\* the key derived again from pw and the recorded salt, and AES-128-CTR with
\* its first 16 bytes and the recorded iv on the recorded ciphertext
Recovered(rec, pw) ==
  aes128_ctr_crypt(
    SubSeq(pbkdf2_hmac("sha256", encode(pw), fromhex(rec.crypto.kdfparams.salt),
                       rec.crypto.kdfparams.c, rec.crypto.kdfparams.dklen), 1, 16),
    fromhex(rec.crypto.cipherparams.iv),
    fromhex(rec.crypto.ciphertext))

\* the private key written to the privateKey file, a line of hex
WrittenKey == fromhex(SubSeq(out.files.privateKey.text, 1, Len(out.files.privateKey.text) - 1))

(* C2: keystore round trip.  For every private key and every password,     *)
(* deriving the key again from the password and the recorded salt and      *)
(* applying AES-128-CTR with its first 16 bytes and the recorded iv to the *)
(* recorded ciphertext returns the 32-byte private key that generate_eoa   *)
(* wrote.                                                                  *)
KeystoreRoundTrip ==
  (pc = "done" /\ inp.make_keystore) =>
    /\ out.files.keystore # Absent
    /\ Len(WrittenKey) = 32
    /\ WrittenKey = out.priv
    /\ Recovered(out.files.keystore.text.json,
                 IF inp.keystore_password = PyNone THEN <<>> ELSE inp.keystore_password.s)
         = Returned(WrittenKey)

\* a keystore was written for the key 2 under a password that is not ASCII and
\* an iv whose counter wraps; its ciphertext is not the key
KeystoreRoundTripWitness ==
  /\ pc = "done"
  /\ inp.keystore_password = Str(<<233, 8364>>)
  /\ out.priv = KeyBytes(IntOf(2))
  /\ out.files.keystore # Absent
  /\ out.files.keystore.text.json.crypto.cipherparams.iv = hex(Fill(16, \hFF))
  /\ fromhex(out.files.keystore.text.json.crypto.ciphertext) # out.priv
  /\ Len(out.files.keystore.text.json.crypto.ciphertext) = 64

\* the password generate_eoa encodes, the record it wrote, and the key it
\* derived from the password and the salt it drew
PasswordUsed == IF inp.keystore_password = PyNone THEN <<>> ELSE inp.keystore_password.s

Record == out.files.keystore.text.json

DerivedKey == pbkdf2_hmac("sha256", encode(PasswordUsed), out.salt, 262144, 32)

(* C12: keystore key split and MAC.  In every keystore record the          *)
(* ciphertext is 32 bytes, the output of AES-128-CTR on the private key    *)
(* under bytes 0..15 of the derived key and the iv drawn, and the mac is   *)
(* keccak_256 of bytes 16..31 of the derived key followed by the           *)
(* ciphertext: the MAC key comes first.                                    *)
KeystoreKeySplitAndMac ==
  (pc = "done" /\ inp.make_keystore) =>
    With(DerivedKey, LAMBDA derived :
      With(fromhex(Record.crypto.ciphertext), LAMBDA ct :
        /\ Len(derived) = 32
        /\ Len(ct) = 32
        /\ aes128_ctr_crypt(SubSeq(derived, 1, 16), out.iv, out.priv) = Returned(ct)
        /\ Len(Record.crypto.mac) = 64
        /\ fromhex(Record.crypto.mac) = keccak_256(SubSeq(derived, 17, 32) \o ct).val))

\* a keystore was written for the key 1 under the password "pw", with a
\* ciphertext and a mac
KeystoreKeySplitAndMacWitness ==
  /\ pc = "done"
  /\ inp.keystore_password = Str(<<112, 119>>)
  /\ out.priv = KeyBytes(IntOf(1))
  /\ out.salt = Pattern(16)
  /\ out.files.keystore # Absent
  /\ Len(Record.crypto.ciphertext) = 64
  /\ Len(Record.crypto.mac) = 64

\* the record's fields, in a state where generate_eoa has written it
RecordConsistent ==
  /\ Len(Record.address) = 40
  /\ IsLowerHex(Record.address)
  /\ <<"0", "x">> \o Record.address = out.addr
  /\ out.files.address.text = out.addr \o <<"\n">>
  /\ fromhex(Record.crypto.kdfparams.salt) = out.salt
  /\ fromhex(Record.crypto.cipherparams.iv) = out.iv
  /\ Len(out.salt) = 16 /\ Len(out.iv) = 16
  /\ aes128_ctr_crypt(
       SubSeq(pbkdf2_hmac("sha256", encode(PasswordUsed),
                          fromhex(Record.crypto.kdfparams.salt), 262144, 32), 1, 16),
       fromhex(Record.crypto.cipherparams.iv),
       out.priv) = Returned(fromhex(Record.crypto.ciphertext))
  /\ Record.crypto.kdfparams.dklen = 32
  /\ Record.crypto.kdfparams.c = 262144
  /\ Record.crypto.kdfparams.prf = "hmac-sha256"

\* the Ethereum addresses of the private keys 1, 2 and 3 (test vectors)
KnownAddresses ==
  << <<"7", "e", "5", "f", "4", "5", "5", "2", "0", "9", "1", "a", "6", "9", "1", "2", "5", "d", "5", "d",
        "f", "c", "b", "7", "b", "8", "c", "2", "6", "5", "9", "0", "2", "9", "3", "9", "5", "b", "d", "f">>,
     <<"2", "b", "5", "a", "d", "5", "c", "4", "7", "9", "5", "c", "0", "2", "6", "5", "1", "4", "f", "8",
        "3", "1", "7", "c", "7", "a", "2", "1", "5", "e", "2", "1", "8", "d", "c", "c", "d", "6", "c", "f">>,
     <<"6", "8", "1", "3", "e", "b", "9", "3", "6", "2", "3", "7", "2", "e", "e", "f", "6", "2", "0", "0",
        "f", "3", "b", "1", "d", "b", "c", "3", "f", "8", "1", "9", "6", "7", "1", "c", "b", "a", "6", "9">> >>

(* C13: keystore self-consistency.  In every record written by             *)
(* generate_eoa the address field is the 40-character lowercase hex        *)
(* address, without 0x, derived from the private key whose ciphertext the  *)
(* record holds; the recorded salt and iv are the ones the key derivation  *)
(* and the encryption used; and kdfparams are dklen = 32, c = 262144,      *)
(* prf = hmac-sha256.                                                      *)
KeystoreSelfConsistent ==
  (pc = "done" /\ inp.make_keystore) =>
    /\ RecordConsistent
    /\ \E k \in 1..Len(KnownAddresses) :
         /\ out.priv = KeyBytes(IntOf(k))
         /\ Record.address = KnownAddresses[k]

\* a keystore was written for the key 2 with the salt and the iv of no
\* particular shape, its address field the 40 characters after "0x"
KeystoreSelfConsistentWitness ==
  /\ pc = "done"
  /\ inp.make_keystore
  /\ out.priv = KeyBytes(IntOf(2))
  /\ out.salt = Pattern(16) /\ out.iv = Pattern(16)
  /\ out.files.keystore # Absent
  /\ Len(Record.address) = 40
  /\ Record.crypto.kdfparams.salt = hex(Pattern(16))

(***************************************************************************)
(* The generation loops of main, after its arguments are settled:          *)
(* eoa_count calls of generate_eoa, then besu_count calls of               *)
(* generate_besu_nodekey.  out.tokens is what secrets.token_bytes(32) has  *)
(* returned so far, out.calls the part of it each call consumed, out.fs    *)
(* the files written.                                                      *)
(***************************************************************************)
MaxCount == 2

MaxTokens == 3

MaxMainKey == 2

\* some of the values of secrets.token_bytes(32): zero and small keys
MainTokens32 == {KeyBytes(IntOf(k)) : k \in 0..MaxMainKey}

MainSalts == {Pattern(16)}

MainIvs == {Fill(16, \hFF)}

\* privkey_to_pubkey and pubkey_to_address on the keys 1..n, evaluated once
\* for a run
Derivations(n) ==
  list([k \in 1..n |->
          With(privkey_to_pubkey(KeyBytes(IntOf(k))), LAMBDA pub :
            [pub  |-> pub,
             addr |-> IF IsReturn(pub) THEN pubkey_to_address(pub.val[2]) ELSE pub])])

KeyIndex(priv) == CHOOSE k \in 1..MaxMainKey : KeyBytes(IntOf(k)) = priv

DecChars == <<"0", "1", "2", "3", "4", "5", "6", "7", "8", "9">>

\* f"{prefix}{i:02d}", for 0 <= i < 100
Name(prefix, i) == <<prefix, DecChars[(i \div 10) + 1], DecChars[(i % 10) + 1]>>

\* d / file, d = out_dir / name
Path(out_dir, name, file) == [root |-> out_dir, name |-> name, file |-> file]

\* the file system after the files are written
Written(fs, files) ==
  {f \in fs : \A g \in files : g.path # f.path} \cup files

\* generate_eoa once priv is drawn, d being the derivations of priv
GenerateEoa(d, out_dir, name, priv, make_keystore, keystore_password, salt, iv, id, now) ==
  IF ~IsReturn(d.pub) THEN [files |-> {}, result |-> d.pub]
  ELSE IF ~IsReturn(d.addr) THEN [files |-> {}, result |-> d.addr]
  ELSE With({File(Path(out_dir, name, <<"privateKey">>), hex(priv) \o <<"\n">>, 384),
             File(Path(out_dir, name, <<"address">>), d.addr.val \o <<"\n">>, 384)},
         LAMBDA files :
           IF ~make_keystore
           THEN [files  |-> files,
                 result |-> Returned([name |-> name, address |-> d.addr.val,
                                      priv_hex |-> hex(priv), keystore_path |-> PyNone])]
           ELSE With(Keystore(priv, d.addr.val,
                              IF keystore_password = PyNone THEN <<>>
                              ELSE keystore_password.s,
                              salt, iv, id),
                  LAMBDA keystore :
                    IF ~IsReturn(keystore) THEN [files |-> files, result |-> keystore]
                    ELSE With(Path(out_dir, name,
                                   <<"UTC--", now, "--",
                                     lower(Slice(d.addr.val, 2, Len(d.addr.val)))>>),
                           LAMBDA ks_path :
                             [files  |-> files \cup
                                           {File(ks_path, [json |-> keystore.val], 384)},
                              result |-> Returned([name |-> name,
                                                   address |-> d.addr.val,
                                                   priv_hex |-> hex(priv),
                                                   keystore_path |-> ks_path])])))

\* generate_besu_nodekey writing an address file as well
GenerateBesuNodekeyWithAddress(d, out_dir, name, priv) ==
  IF ~IsReturn(d.pub) THEN [files |-> {}, result |-> d.pub]
  ELSE With(Path(out_dir, name, <<"key">>), LAMBDA key_path :
         With(Path(out_dir, name, <<"key.pub">>), LAMBDA pub_path :
           [files  |-> {File(key_path, hex(priv) \o <<"\n">>, 384),
                        File(pub_path, hex(d.pub.val[2]) \o <<"\n">>, 420),
                        File(Path(out_dir, name, <<"address">>),
                             d.addr.val \o <<"\n">>, 384)},
            result |-> Returned([name |-> name, key_path |-> key_path,
                                 pub_path |-> pub_path])]))

\* generate_besu_nodekey once priv is drawn, d being the derivations of priv
GenerateBesuNodekey(d, out_dir, name, priv) ==
  IF ~IsReturn(d.pub) THEN [files |-> {}, result |-> d.pub]
  ELSE With(Path(out_dir, name, <<"key">>), LAMBDA key_path :
         With(Path(out_dir, name, <<"key.pub">>), LAMBDA pub_path :
           [files  |-> {File(key_path, hex(priv) \o <<"\n">>, 384),
                        File(pub_path, hex(d.pub.val[2]) \o <<"\n">>, 420)},
            result |-> Returned([name |-> name, key_path |-> key_path,
                                 pub_path |-> pub_path])]))

\* the arguments of a run
MainArgs(derived) ==
  {a \in [gen_eoa : BOOLEAN, eoa_count : 0..MaxCount, besu_count : 0..MaxCount,
          make_keystore : BOOLEAN, ks_pass : {PyNone, Str(<<112, 119>>)},
          derived : {derived}] :
     /\ a.make_keystore = (a.ks_pass # PyNone)
     /\ a.make_keystore => (a.gen_eoa /\ a.besu_count <= 1)
     /\ ~a.gen_eoa => a.eoa_count = 1}

MainInit ==
  /\ pc = "eoa"
  /\ With(Derivations(MaxMainKey), LAMBDA derived : inp \in MainArgs(derived))
  /\ out = [tokens |-> <<>>, calls |-> <<>>, i |-> 1, fs |-> {},
            eoa_results |-> <<>>, besu_results |-> <<>>]

\* what a call that returned r after drawing priv leaves behind
Generated(kind, g, b) ==
  IF ~IsReturn(g.result)
  THEN /\ pc' = "exit"
       /\ out' = [out EXCEPT !.tokens = Append(@, b), !.fs = Written(@, g.files)]
  ELSE /\ pc' = pc
       /\ out' = [out EXCEPT
                    !.tokens = Append(@, b),
                    !.calls = Append(@, [kind  |-> kind,
                                         name  |-> g.result.val.name,
                                         first |-> (IF out.calls = <<>> THEN 1
                                                    ELSE out.calls[Len(out.calls)].last + 1),
                                         last  |-> Len(out.tokens) + 1]),
                    !.fs = Written(@, g.files),
                    !.eoa_results = IF kind = "eoa" THEN Append(@, g.result.val) ELSE @,
                    !.besu_results = IF kind = "besu" THEN Append(@, g.result.val) ELSE @,
                    !.i = @ + 1]

\* one pass of the loop of new_secp256k1_private_key in the i-th generate_eoa
\* call and, when the key is accepted, the rest of the call
MainEoaPass ==
  /\ pc = "eoa"
  /\ inp.gen_eoa /\ out.i <= inp.eoa_count
  /\ Len(out.tokens) < MaxTokens
  /\ \E b \in MainTokens32, salt \in MainSalts, iv \in MainIvs, id \in Uuids, now \in Times :
       IF ~KeyAccepted(b)
       THEN pc' = pc /\ out' = [out EXCEPT !.tokens = Append(@, b)]
       ELSE With(GenerateEoa(inp.derived[KeyIndex(b)], "eoa", Name("eoa-", out.i), b,
                             inp.make_keystore, inp.ks_pass, salt, iv, id, now),
                 LAMBDA g : Generated("eoa", g, b))
  /\ UNCHANGED inp

\* the EOA loop is over, or was not asked for
MainEoaEnd ==
  /\ pc = "eoa"
  /\ ~(inp.gen_eoa /\ out.i <= inp.eoa_count)
  /\ pc' = "besu"
  /\ out' = [out EXCEPT !.i = 1]
  /\ UNCHANGED inp

\* one pass of the loop of new_secp256k1_private_key in the i-th
\* generate_besu_nodekey call and, when the key is accepted, the rest of it
MainBesuPassReusingKey ==
  /\ pc = "besu"
  /\ inp.besu_count > 0 /\ out.i <= inp.besu_count
  /\ Len(out.tokens) < MaxTokens
  /\ \E b \in MainTokens32 :
       IF ~KeyAccepted(b)
       THEN pc' = pc /\ out' = [out EXCEPT !.tokens = Append(@, b)]
       ELSE With(IF out.calls = <<>> THEN b
                 ELSE out.tokens[out.calls[Len(out.calls)].last],
                 LAMBDA priv :
                   With(GenerateBesuNodekey(inp.derived[KeyIndex(priv)], "besu",
                                            Name("besu-node-", out.i), priv),
                        LAMBDA g : Generated("besu", g, b)))
  /\ UNCHANGED inp

MainBesuPass ==
  /\ pc = "besu"
  /\ inp.besu_count > 0 /\ out.i <= inp.besu_count
  /\ Len(out.tokens) < MaxTokens
  /\ \E b \in MainTokens32 :
       IF ~KeyAccepted(b)
       THEN pc' = pc /\ out' = [out EXCEPT !.tokens = Append(@, b)]
       ELSE With(GenerateBesuNodekey(inp.derived[KeyIndex(b)], "besu",
                                     Name("besu-node-", out.i), b),
                 LAMBDA g : Generated("besu", g, b))
  /\ UNCHANGED inp

\* the Besu loop is over, or was not asked for
MainBesuEnd ==
  /\ pc = "besu"
  /\ ~(inp.besu_count > 0 /\ out.i <= inp.besu_count)
  /\ pc' = "done"
  /\ UNCHANGED <<inp, out>>

MainNext == MainEoaPass \/ MainEoaEnd \/ MainBesuPass \/ MainBesuEnd

SpecMain == MainInit /\ [][MainNext]_vars

\* the public keys G, 2G and 3G of the private keys 1, 2 and 3, x then y, in hex
\* (test vectors)
KnownPublicKeys ==
  << <<"7", "9", "b", "e", "6", "6", "7", "e", "f", "9", "d", "c", "b", "b", "a", "c",
       "5", "5", "a", "0", "6", "2", "9", "5", "c", "e", "8", "7", "0", "b", "0", "7",
       "0", "2", "9", "b", "f", "c", "d", "b", "2", "d", "c", "e", "2", "8", "d", "9",
       "5", "9", "f", "2", "8", "1", "5", "b", "1", "6", "f", "8", "1", "7", "9", "8",
       "4", "8", "3", "a", "d", "a", "7", "7", "2", "6", "a", "3", "c", "4", "6", "5",
       "5", "d", "a", "4", "f", "b", "f", "c", "0", "e", "1", "1", "0", "8", "a", "8",
       "f", "d", "1", "7", "b", "4", "4", "8", "a", "6", "8", "5", "5", "4", "1", "9",
       "9", "c", "4", "7", "d", "0", "8", "f", "f", "b", "1", "0", "d", "4", "b", "8">>,
     <<"c", "6", "0", "4", "7", "f", "9", "4", "4", "1", "e", "d", "7", "d", "6", "d",
       "3", "0", "4", "5", "4", "0", "6", "e", "9", "5", "c", "0", "7", "c", "d", "8",
       "5", "c", "7", "7", "8", "e", "4", "b", "8", "c", "e", "f", "3", "c", "a", "7",
       "a", "b", "a", "c", "0", "9", "b", "9", "5", "c", "7", "0", "9", "e", "e", "5",
       "1", "a", "e", "1", "6", "8", "f", "e", "a", "6", "3", "d", "c", "3", "3", "9",
       "a", "3", "c", "5", "8", "4", "1", "9", "4", "6", "6", "c", "e", "a", "e", "e",
       "f", "7", "f", "6", "3", "2", "6", "5", "3", "2", "6", "6", "d", "0", "e", "1",
       "2", "3", "6", "4", "3", "1", "a", "9", "5", "0", "c", "f", "e", "5", "2", "a">>,
     <<"f", "9", "3", "0", "8", "a", "0", "1", "9", "2", "5", "8", "c", "3", "1", "0",
       "4", "9", "3", "4", "4", "f", "8", "5", "f", "8", "9", "d", "5", "2", "2", "9",
       "b", "5", "3", "1", "c", "8", "4", "5", "8", "3", "6", "f", "9", "9", "b", "0",
       "8", "6", "0", "1", "f", "1", "1", "3", "b", "c", "e", "0", "3", "6", "f", "9",
       "3", "8", "8", "f", "7", "b", "0", "f", "6", "3", "2", "d", "e", "8", "1", "4",
       "0", "f", "e", "3", "3", "7", "e", "6", "2", "a", "3", "7", "f", "3", "5", "6",
       "6", "5", "0", "0", "a", "9", "9", "9", "3", "4", "c", "2", "2", "3", "1", "b",
       "6", "c", "b", "9", "f", "d", "7", "5", "8", "4", "b", "8", "e", "6", "7", "2">> >>

\* the text of the file written at a path
TextAt(root, name, file) ==
  (CHOOSE f \in out.fs : f.path = Path(root, name, file)).text

\* the call took its key from draws of its own: they come after the draws of
\* the call before, all but the last were rejected, the last is the key
OwnDraws(c) ==
  /\ c > 1 => out.calls[c].first > out.calls[c - 1].last
  /\ out.calls[c].first <= out.calls[c].last
  /\ out.calls[c].last <= Len(out.tokens)
  /\ \A j \in out.calls[c].first..(out.calls[c].last - 1) : ~ValidKey(out.tokens[j])
  /\ ValidKey(out.tokens[out.calls[c].last])

\* the account's files hold the key drawn and what is derived from it
AccountOfKey(call, key) ==
  \E k \in 1..Len(KnownAddresses) :
    /\ key = KeyBytes(IntOf(k))
    /\ IF call.kind = "eoa"
       THEN /\ TextAt("eoa", call.name, <<"privateKey">>) = hex(key) \o <<"\n">>
            /\ TextAt("eoa", call.name, <<"address">>)
                 = <<"0", "x">> \o KnownAddresses[k] \o <<"\n">>
       ELSE /\ TextAt("besu", call.name, <<"key">>) = hex(key) \o <<"\n">>
            /\ TextAt("besu", call.name, <<"key.pub">>)
                 = KnownPublicKeys[k] \o <<"\n">>

(* C14: no key reuse.  In a run that generates any number of EOA and Besu  *)
(* node keys, every generate_eoa and generate_besu_nodekey call takes its  *)
(* private key from a rejection-sampling run of its own on the random      *)
(* source (draws made after those of the call before, the key being the    *)
(* first of them in range), and the address or the public key written for  *)
(* an account is the one of the private key written for that account.      *)
NoKeyReuse ==
  /\ Len(out.calls) = Len(out.eoa_results) + Len(out.besu_results)
  /\ \A c \in 1..Len(out.calls) :
       /\ OwnDraws(c)
       /\ AccountOfKey(out.calls[c], out.tokens[out.calls[c].last])

\* a run wrote an EOA with the key 2 and then, after a rejected draw, a Besu
\* node key with the key 1
NoKeyReuseWitness ==
  /\ pc = "done"
  /\ out.tokens = <<KeyBytes(IntOf(2)), KeyBytes(IntOf(0)), KeyBytes(IntOf(1))>>
  /\ Len(out.eoa_results) = 1 /\ Len(out.besu_results) = 1
  /\ out.calls[2].kind = "besu"
  /\ out.calls[2].first = 2 /\ out.calls[2].last = 3
  /\ TextAt("besu", out.calls[2].name, <<"key">>) = hex(KeyBytes(IntOf(1))) \o <<"\n">>
  /\ TextAt("eoa", out.calls[1].name, <<"privateKey">>) = hex(KeyBytes(IntOf(2))) \o <<"\n">>

\* the names of the files written in the directory of an account
FilesOf(root, name) ==
  {f.path.file : f \in {g \in out.fs : g.path.root = root /\ g.path.name = name}}

\* the files of the c-th account generated are those of its kind
ShapeOf(c) ==
  LET call == out.calls[c]
      files == FilesOf(call.kind, call.name)
      keystores == files \ {<<"privateKey">>, <<"address">>}
  IN IF call.kind = "eoa"
     THEN /\ {<<"privateKey">>, <<"address">>} \subseteq files
          /\ (keystores # {}) <=> inp.make_keystore
          /\ \A k \in keystores :
               /\ Len(k) = 4 /\ k[1] = "UTC--"
               /\ keystores = {k}
               /\ \E r \in 1..Len(out.eoa_results) :
                    /\ out.eoa_results[r].name = call.name
                    /\ out.eoa_results[r].keystore_path = Path("eoa", call.name, k)
          /\ ~inp.make_keystore =>
               \A r \in 1..Len(out.eoa_results) :
                 out.eoa_results[r].keystore_path = PyNone
     ELSE /\ files = {<<"key">>, <<"key.pub">>}
          /\ Len(TextAt("besu", call.name, <<"key">>)) = 65
          /\ Len(TextAt("besu", call.name, <<"key.pub">>)) = 129

(* C16: account shapes.  generate_eoa always writes both the privateKey    *)
(* and the address file, and a keystore file if and only if make_keystore  *)
(* is set; generate_besu_nodekey writes only the private key and the raw   *)
(* 64-byte public key (key, key.pub), never an address or a keystore; and  *)
(* no file is written outside the directories of the accounts generated.   *)
AccountShapes ==
  /\ \A c \in 1..Len(out.calls) : ShapeOf(c)
  /\ \A f \in out.fs :
       \E c \in 1..Len(out.calls) :
         f.path.root = out.calls[c].kind /\ f.path.name = out.calls[c].name

\* a run wrote an EOA with its keystore and a Besu node key
AccountShapesWitness ==
  /\ pc = "done"
  /\ inp.make_keystore
  /\ Len(out.eoa_results) = 1 /\ Len(out.besu_results) = 1
  /\ Cardinality(FilesOf("eoa", out.eoa_results[1].name)) = 3
  /\ Cardinality(FilesOf("besu", out.besu_results[1].name)) = 2
  /\ Cardinality(out.fs) = 5

(***************************************************************************)
(* A script that runs one keccak_256 call step by step, or calls _rol64    *)
(* once.                                                                   *)
(***************************************************************************)
MaxSpongeBlocks == 2

MaxRotation == 65

\* inputs that end just before, at and just after the end of a block
SpongeInputs ==
  {Pattern(KeccakRate * k + d) : k \in 0..MaxSpongeBlocks, d \in {0, 1, 134, 135}}

RotatedLanes ==
  {{}, {0}, {63}, 0..63, _KECCAK_RNDC[3], lane_from_bytes_little(Pattern(8))}

SpongeInit ==
  \/ /\ pc = "absorb"
     /\ inp \in SpongeInputs
     /\ out = KeccakEntry
  \/ /\ pc = "rotate"
     /\ inp \in [x : RotatedLanes, n : 0..MaxRotation]
     /\ out = NotCalled

SpongeAbsorb ==
  /\ pc = "absorb"
  /\ out' = AbsorbStep(inp, out)
  /\ pc' = out'.pc
  /\ UNCHANGED inp

SpongePad ==
  /\ pc = "pad"
  /\ out' = PadStep(inp, out)
  /\ pc' = out'.pc
  /\ UNCHANGED inp

SpongeTail ==
  /\ pc = "tail"
  /\ out' = TailStep(out)
  /\ pc' = out'.pc
  /\ UNCHANGED inp

SpongeSqueeze ==
  /\ pc = "squeeze"
  /\ out' = SqueezeStep(out)
  /\ pc' = out'.pc
  /\ UNCHANGED inp

SpongeTheta ==
  /\ pc = "theta"
  /\ out' = ThetaStep(out)
  /\ pc' = out'.pc
  /\ UNCHANGED inp

SpongeRhoPi ==
  /\ pc = "rhopi"
  /\ out' = RhoPiStep(out)
  /\ pc' = out'.pc
  /\ UNCHANGED inp

SpongeChi ==
  /\ pc = "chi"
  /\ out' = ChiStep(out)
  /\ pc' = out'.pc
  /\ UNCHANGED inp

SpongeIota ==
  /\ pc = "iota"
  /\ out' = IotaStep(out)
  /\ pc' = out'.pc
  /\ UNCHANGED inp

Rotate ==
  /\ pc = "rotate"
  /\ out' = _rol64(inp.x, inp.n)
  /\ pc' = "rotated"
  /\ UNCHANGED inp

SpongeNext ==
  \/ SpongeAbsorb \/ SpongePad \/ SpongeTail \/ SpongeSqueeze
  \/ SpongeTheta \/ SpongeRhoPi \/ SpongeChi \/ SpongeIota
  \/ Rotate

SpecSponge == SpongeInit /\ [][SpongeNext]_vars

\* the run is that of keccak_256
SpongeIsKeccak == pc = "done" => out.result = keccak_256(inp)

\* the blocks from the n-th on, one after the other
RECURSIVE BlocksFrom(_, _)
BlocksFrom(blocks, n) ==
  IF n > Len(blocks) THEN <<>> ELSE blocks[n] \o BlocksFrom(blocks, n + 1)

\* padded is rem, one 0x01 byte, zero bytes only, one final 0x80 byte
IsPadded(padded, rem) ==
  /\ Len(padded) >= Len(rem) + 2
  /\ SubSeq(padded, 1, Len(rem)) = rem
  /\ padded[Len(rem) + 1] = \h01
  /\ \A j \in (Len(rem) + 2)..(Len(padded) - 1) : padded[j] = \h00
  /\ padded[Len(padded)] = \h80

(* C17: Keccak padding.  For every input, what keccak_256 absorbs after    *)
(* the full 136-byte blocks of the data is the remaining data bytes, one   *)
(* 0x01 byte, then only 0x00 bytes, then one final 0x80 byte, in blocks of *)
(* 136 bytes: a positive multiple of 136 bytes in all.                     *)
KeccakPadding ==
  (pc \in {"squeeze", "done"}) =>
    LET n == Len(inp) \div 136
        padded == BlocksFrom(out.blocks, n + 1)
    IN /\ Len(out.blocks) > n
       /\ \A i \in 1..Len(out.blocks) : Len(out.blocks[i]) = 136
       /\ \A i \in 1..n : out.blocks[i] = SubSeq(inp, 136 * (i - 1) + 1, 136 * i)
       /\ Len(padded) > 0 /\ Len(padded) % 136 = 0
       /\ IsPadded(padded, SubSeq(inp, 136 * n + 1, Len(inp)))

\* an input of 136 + 134 bytes was absorbed: its last block ends 0x01, 0x80
KeccakPaddingWitness ==
  /\ pc = "done"
  /\ Len(inp) = 270
  /\ Len(out.blocks) = 2
  /\ out.blocks[2][135] = \h01 /\ out.blocks[2][136] = \h80
  /\ out.blocks[1] = SubSeq(inp, 1, 136)

(* C18, as claimed: Keccak block count.  For every input length L,         *)
(* keccak_256 absorbs exactly floor(L / 136) + 1 blocks of 136 bytes, the  *)
(* full data blocks and a single padded block, calls _keccak_f1600 once    *)
(* for each block absorbed and never while squeezing the digest.           *)
KeccakBlockCount ==
  pc = "done" =>
    /\ Len(out.blocks) = (Len(inp) \div 136) + 1
    /\ \A i \in 1..Len(out.blocks) : Len(out.blocks[i]) = 136
    /\ out.calls.absorb = Len(out.blocks)
    /\ out.calls.squeeze = 0

\* x rotated left by n in 64 bits
RotatedLeft(x, n) == {(p + n) % 64 : p \in x}

(* C19: 64-bit lanes.  After every step of every permutation round         *)
(* (theta, rho and pi, chi with its bitwise NOT, iota) and after every     *)
(* absorb, each of the 25 lanes of the state (and of b) is an integer in   *)
(* 0 .. 2^64 - 1; and _rol64(x, n) is the 64-bit left rotation of x by     *)
(* n mod 64 for every n, n = 0 and n = 64 included.                        *)
Lanes64 ==
  /\ pc \notin {"rotate", "rotated"} =>
       \A i \in 1..25 : out.state[i] \subseteq 0..63 /\ out.b[i] \subseteq 0..63
  /\ pc = "rotated" => out = RotatedLeft(inp.x, inp.n % 64)

\* the last chi of a permutation has set the top bit of a lane
Lanes64Witness ==
  /\ pc = "iota"
  /\ out.r = 24
  /\ \E i \in 1..25 : 63 \in out.state[i] /\ 0 \in out.b[i]

(***************************************************************************)
(* _ec_add(p1, p2) on two points, step by step: the returns before a slope *)
(* is computed, then lam, x3, and y3 with the return.  The operands are    *)
(* the points _ec_mul(k, G) reaches for small k of either sign, the point  *)
(* at infinity among them, and the record with G's x and y = 0.            *)
(***************************************************************************)
MaxPointMultiple == 2

\* the point of a negative k left as it is
NotNegated(p) == p

\* -p as _ec_mul builds it for a negative k
Negated(p) == ECPoint(p.x, IntMod(IntNeg(p.y), SECP_P), FALSE)

AddPoints ==
  UNION {With(_ec_mul(IntOf(k), G).val, LAMBDA p : {p, Negated(p)}) :
           k \in 1..MaxPointMultiple}
    \cup {INF, ECPoint(SECP_GX, IntZero, FALSE)}

AddInit ==
  /\ pc = "start"
  /\ With(AddPoints, LAMBDA points : inp \in [p1 : points, p2 : points])
  /\ out = [lam |-> NotCalled, x3 |-> NotCalled, res |-> NotCalled]

\* the three returns at the head of _ec_add
EcAddReturn ==
  /\ pc = "start"
  /\ EarlyReturn(inp.p1, inp.p2)
  /\ out' = [out EXCEPT !.res = _ec_add(inp.p1, inp.p2)]
  /\ pc' = "done"
  /\ UNCHANGED inp

\* lam = ..., or the exception of _inv_mod leaving _ec_add
EcAddSlope ==
  /\ pc = "start"
  /\ ~EarlyReturn(inp.p1, inp.p2)
  /\ With(Slope(inp.p1, inp.p2), LAMBDA lam :
          /\ out' = [out EXCEPT !.lam = lam, !.res = IF IsReturn(lam) THEN @ ELSE lam]
          /\ pc' = IF IsReturn(lam) THEN "slope" ELSE "done")
  /\ UNCHANGED inp

\* x3 = ...
EcAddX ==
  /\ pc = "slope"
  /\ out' = [out EXCEPT !.x3 = SumX(inp.p1, inp.p2, out.lam.val)]
  /\ pc' = "x3"
  /\ UNCHANGED inp

\* y3 = ... and the return
EcAddSum ==
  /\ pc = "x3"
  /\ out' = [out EXCEPT !.res = Returned(SumPoint(inp.p1, inp.p2, out.lam.val, out.x3))]
  /\ pc' = "done"
  /\ UNCHANGED inp

AddNext == EcAddReturn \/ EcAddSlope \/ EcAddX \/ EcAddSum

SpecAdd == AddInit /\ [][AddNext]_vars

\* 0 <= lam < P and lam * den = num (mod P): lam is num * den^-1 mod P
IsQuotient(lam, num, den) ==
  /\ ~lam.neg
  /\ IntLess(lam, SECP_P)
  /\ IntMod(IntSub(IntMul(lam, den), num), SECP_P) = IntZero

\* the point of slope lam through p1 and p2
PointOfSlope(p1, p2, lam) ==
  LET x3 == IntMod(IntSub(IntMul(lam, lam), IntAdd(p1.x, p2.x)), SECP_P)
  IN ECPoint(x3, IntMod(IntSub(IntMul(lam, IntSub(p1.x, x3)), p1.y), SECP_P), FALSE)

(* C20: point addition special cases.  _ec_add(INF, p) = p and             *)
(* _ec_add(p, INF) = p; _ec_add(p1, p2) is the point at infinity whenever  *)
(* x1 = x2 and (y1 # y2 or y1 = 0); otherwise equal operands are added     *)
(* with the doubling slope 3 x^2 (2 y)^-1 mod P and distinct operands with *)
(* the chord slope (y2 - y1) (x2 - x1)^-1 mod P.                           *)
PointAddition ==
  pc = "done" =>
    LET p1 == inp.p1
        p2 == inp.p2
    IN IF p1.inf THEN out.res = Returned(p2)
       ELSE IF p2.inf THEN out.res = Returned(p1)
       ELSE IF p1.x = p2.x /\ (p1.y # p2.y \/ p1.y = IntZero)
            THEN out.res = Returned(INF)
       ELSE /\ IsReturn(out.lam)
            /\ IF p1 = p2
               THEN IsQuotient(out.lam.val, IntMul(IntOf(3), IntMul(p1.x, p1.x)),
                               IntMul(IntOf(2), p1.y))
               ELSE IsQuotient(out.lam.val, IntSub(p2.y, p1.y), IntSub(p2.x, p1.x))
            /\ out.res = Returned(PointOfSlope(p1, p2, out.lam.val))

\* G + G was computed with a slope and gave the 2G that _ec_mul reaches,
\* and in another run G + (-G) gave the point at infinity
PointAdditionWitness ==
  /\ pc = "done"
  /\ inp.p1 = G
  /\ inp.p2 = G
  /\ IsReturn(out.lam)
  /\ IsReturn(out.res)
  /\ ~out.res.val.inf
  /\ out.res.val.x # SECP_GX
  /\ int_to_bytes(out.res.val.x, 32).val[1] = \hC6

(***************************************************************************)
(* Concurrent invocations.  Each thread makes one call of keccak_256,      *)
(* aes128_ctr_crypt or privkey_to_pubkey and a step of any thread may      *)
(* follow a step of any other.  The lists a call mutates in place across   *)
(* its steps live in out.heap under the frame and name that hold them:     *)
(* state and b of keccak_256 and _keccak_f1600, out and the state of       *)
(* aes128_encrypt_block in aes128_ctr_crypt.  The module's tables and      *)
(* constants are the heap entries of frame 0.                              *)
(***************************************************************************)
MaxThreads == 2

Threads == 1..MaxThreads

\* the tables and constants the three operations read
ModuleLevel ==
  [f \in {<<0, "_KECCAK_RNDC">>, <<0, "_KECCAK_ROTC">>, <<0, "_AES_SBOX">>,
          <<0, "_AES_RCON">>, <<0, "G">>, <<0, "INF">>} |->
     CASE f[2] = "_KECCAK_RNDC" -> _KECCAK_RNDC
       [] f[2] = "_KECCAK_ROTC" -> _KECCAK_ROTC
       [] f[2] = "_AES_SBOX" -> _AES_SBOX
       [] f[2] = "_AES_RCON" -> _AES_RCON
       [] f[2] = "G" -> G
       [] f[2] = "INF" -> INF]

\* a name assigned at module level: one list for every invocation
Global(i, name) == <<0, name>>

\* a name assigned in a function body is local to the invocation i
Local(i, name) == <<i, name>>

\* name = value
Bind(heap, ref, value) ==
  [f \in DOMAIN heap \cup {ref} |-> IF f = ref THEN value ELSE heap[f]]

\* the step of keccak_256 at s.pc
KeccakStep(data, s) ==
  CASE s.pc = "absorb" -> AbsorbStep(data, s)
    [] s.pc = "pad" -> PadStep(data, s)
    [] s.pc = "tail" -> TailStep(s)
    [] s.pc = "squeeze" -> SqueezeStep(s)
    [] s.pc = "theta" -> ThetaStep(s)
    [] s.pc = "rhopi" -> RhoPiStep(s)
    [] s.pc = "chi" -> ChiStep(s)
    [] s.pc = "iota" -> IotaStep(s)

\* aes128_ctr_crypt up to its loop
AesEntry(iv16) ==
  IF Len(iv16) # 16
  THEN [pc |-> "done", off |-> 0, counter |-> <<>>, rks |-> <<>>, rnd |-> 0,
        state |-> <<>>, o |-> <<>>, result |-> die("CTR IV must be 16 bytes")]
  ELSE [pc |-> "block", off |-> 0, counter |-> int_from_bytes_big(iv16), rks |-> <<>>,
        rnd |-> 0, state |-> <<>>, o |-> <<>>, result |-> NotCalled]

\* a pass of "for off in range(0, len(data), 16)" up to the rounds of
\* aes128_encrypt_block, or the return
AesBlockStep(key16, data, s) ==
  IF s.off >= Len(data) THEN [s EXCEPT !.result = Returned(s.o), !.pc = "done"]
  ELSE With(int_to_bytes_big(s.counter, 16), LAMBDA ctr_block :
         IF ~IsReturn(ctr_block) THEN [s EXCEPT !.result = ctr_block, !.pc = "done"]
         ELSE With(_aes_key_expand_128(key16), LAMBDA rks :
                IF ~IsReturn(rks) THEN [s EXCEPT !.result = rks, !.pc = "done"]
                ELSE [s EXCEPT !.rks = rks.val,
                               !.state = _aes_add_round_key(ctr_block.val, rks.val[1]),
                               !.rnd = 1,
                               !.pc = "round"]))

\* a pass of "for rnd in range(1, 10)"
AesRoundStep(s) ==
  [s EXCEPT !.state = _aes_add_round_key(
                        _aes_mix_columns(_aes_shift_rows(_aes_sub_bytes(s.state))),
                        s.rks[s.rnd + 1]),
            !.rnd = s.rnd + 1,
            !.pc = IF s.rnd + 1 < 10 THEN "round" ELSE "final"]

\* the last round, the return of ks, and the rest of the pass of aes128_ctr_crypt
AesFinalStep(data, s) ==
  With(_aes_add_round_key(_aes_shift_rows(_aes_sub_bytes(s.state)), s.rks[11]),
       LAMBDA ks :
         With(Slice(data, s.off, s.off + 16), LAMBDA block :
           [s EXCEPT !.state = ks,
                     !.o = s.o \o list([i \in 1..Len(block) |-> XorTab[block[i]][ks[i]]]),
                     !.counter = NatLowBits(NatAdd(s.counter, NatOne), 128),
                     !.off = s.off + 16,
                     !.pc = "block"]))

\* the step of aes128_ctr_crypt at s.pc
AesStep(key16, data, s) ==
  CASE s.pc = "block" -> AesBlockStep(key16, data, s)
    [] s.pc = "round" -> AesRoundStep(s)
    [] s.pc = "final" -> AesFinalStep(data, s)

\* privkey_to_pubkey up to the call of _ec_mul
PubkeyEntry(priv) ==
  IF Len(priv) # 32
  THEN [pc |-> "done", k |-> IntZero, point |-> NotCalled,
        result |-> die("Private key must be 32 bytes")]
  ELSE With(int_from_bytes(priv), LAMBDA k :
         IF ~IntLess(IntZero, k) \/ ~IntLess(k, SECP_N)
         THEN [pc |-> "done", k |-> k, point |-> NotCalled,
               result |-> die("Private key out of range for secp256k1")]
         ELSE [pc |-> "mul", k |-> k, point |-> NotCalled, result |-> NotCalled])

\* P = _ec_mul(k, G), kG being the product for the module's G,
\* then the encoding and the return
PubkeyStep(s, g, kG) ==
  CASE s.pc = "mul" ->
         [s EXCEPT !.point = IF g = G THEN kG ELSE _ec_mul(s.k, g),
                   !.pc = "encode"]
    [] s.pc = "encode" -> [s EXCEPT !.result = Encoded(s.point), !.pc = "done"]

\* the call thread i makes of each operation
KeccakCall(i) == [op |-> "keccak_256", data |-> Pattern(40 + i)]

AesCall(i) ==
  [op |-> "aes128_ctr_crypt", key16 |-> Fill(16, i), iv16 |-> Fill(16, \hFF),
   data |-> Pattern(16 + i)]

PubkeyCall(i) == [op |-> "privkey_to_pubkey", priv |-> KeyBytes(IntOf(i))]

\* the result of a call in a program that makes no other
Alone(call) ==
  CASE call.op = "keccak_256" -> keccak_256(call.data)
    [] call.op = "aes128_ctr_crypt" -> aes128_ctr_crypt(call.key16, call.iv16, call.data)
    [] call.op = "privkey_to_pubkey" -> privkey_to_pubkey(call.priv)

ThreadsInit ==
  /\ pc = [i \in Threads |-> "call"]
  /\ With(list([i \in Threads |-> list(<<KeccakCall(i), AesCall(i), PubkeyCall(i)>>)]),
          LAMBDA calls :
      With(list([i \in Threads |-> list([c \in 1..3 |-> Alone(calls[i][c])])]),
           LAMBDA alone :
        With(list([i \in Threads |-> _ec_mul(int_from_bytes(calls[i][3].priv), G)]),
             LAMBDA multiples :
          \E choice \in [Threads -> 1..3] :
            inp = [calls |-> [i \in Threads |-> calls[i][choice[i]]],
                   alone |-> [i \in Threads |-> alone[i][choice[i]]],
                   multiples |-> multiples])))
  /\ out = [heap |-> ModuleLevel, threads |-> [i \in Threads |-> [pc |-> "call"]]]

\* thread i takes the next step of its keccak_256(data)
ThreadKeccak(i) ==
  /\ inp.calls[i].op = "keccak_256"
  /\ pc[i] # "done"
  /\ With(IF pc[i] = "call" THEN KeccakEntry
          ELSE KeccakStep(inp.calls[i].data,
                          [out.threads[i] EXCEPT !.state = out.heap[Local(i, "state")],
                                                 !.b = out.heap[Local(i, "b")]]),
          LAMBDA s :
            /\ out' = [heap |-> Bind(Bind(out.heap, Local(i, "state"), s.state),
                                     Local(i, "b"), s.b),
                       threads |-> [out.threads EXCEPT
                                      ![i] = [s EXCEPT !.state = <<>>, !.b = <<>>]]]
            /\ pc' = [pc EXCEPT ![i] = s.pc])
  /\ UNCHANGED inp

\* thread i takes the next step of its aes128_ctr_crypt(key16, iv16, data)
ThreadAes(i) ==
  /\ inp.calls[i].op = "aes128_ctr_crypt"
  /\ pc[i] # "done"
  /\ With(IF pc[i] = "call" THEN AesEntry(inp.calls[i].iv16)
          ELSE AesStep(inp.calls[i].key16, inp.calls[i].data,
                       [out.threads[i] EXCEPT !.state = out.heap[Local(i, "state")],
                                              !.o = out.heap[Local(i, "out")]]),
          LAMBDA s :
            /\ out' = [heap |-> Bind(Bind(out.heap, Local(i, "state"), s.state),
                                     Local(i, "out"), s.o),
                       threads |-> [out.threads EXCEPT
                                      ![i] = [s EXCEPT !.state = <<>>, !.o = <<>>]]]
            /\ pc' = [pc EXCEPT ![i] = s.pc])
  /\ UNCHANGED inp

\* thread i takes the next step of its privkey_to_pubkey(priv)
ThreadPubkey(i) ==
  /\ inp.calls[i].op = "privkey_to_pubkey"
  /\ pc[i] # "done"
  /\ With(IF pc[i] = "call" THEN PubkeyEntry(inp.calls[i].priv)
          ELSE PubkeyStep(out.threads[i], out.heap[<<0, "G">>], inp.multiples[i]),
          LAMBDA s :
            /\ out' = [out EXCEPT !.threads[i] = s]
            /\ pc' = [pc EXCEPT ![i] = s.pc])
  /\ UNCHANGED inp

ThreadsNext == \E i \in Threads : ThreadKeccak(i) \/ ThreadAes(i) \/ ThreadPubkey(i)

SpecThreads == ThreadsInit /\ [][ThreadsNext]_vars

(* C15: no shared mutable state.  Under every interleaving of concurrent   *)
(* invocations of keccak_256, privkey_to_pubkey and aes128_ctr_crypt, each *)
(* invocation returns the result it returns when run alone, and the        *)
(* module-level tables and constants (_KECCAK_RNDC, _KECCAK_ROTC,          *)
(* _AES_SBOX, _AES_RCON, G, INF) keep their values, no other module-level  *)
(* list coming into being.                                                 *)
NoSharedMutableState ==
  /\ \A i \in Threads : pc[i] = "done" => out.threads[i].result = inp.alone[i]
  /\ {f \in DOMAIN out.heap : f[1] = 0} = DOMAIN ModuleLevel
  /\ \A f \in DOMAIN ModuleLevel : out.heap[f] = ModuleLevel[f]

\* thread 1 has returned the digest of its input while thread 2, hashing
\* another input, is in the middle of round 12 of its permutation
NoSharedMutableStateWitness ==
  /\ inp.calls[1].op = "keccak_256"
  /\ inp.calls[2].op = "keccak_256"
  /\ inp.calls[1].data # inp.calls[2].data
  /\ pc[1] = "done"
  /\ pc[2] = "chi"
  /\ out.threads[2].r = 12
  /\ IsReturn(out.threads[1].result)
  /\ Len(out.threads[1].result.val) = 32
  /\ out.heap[<<1, "state">>] # out.heap[<<2, "state">>]

(***************************************************************************)
(* _inv_mod(k, SECP_P) on one argument, its two statements as two steps:   *)
(* the test "k == 0", then the return of pow(k, p - 2, p).  The arguments  *)
(* are the integers around 0 and around P, with -P and 2P.                 *)
(***************************************************************************)
MaxInvArg == 8

InvArgs ==
  {IntOf(d) : d \in -MaxInvArg..MaxInvArg}
    \cup {IntAdd(SECP_P, IntOf(d)) : d \in -MaxInvArg..MaxInvArg}
    \cup {IntNeg(SECP_P), IntAdd(SECP_P, SECP_P)}

InvInit ==
  /\ pc = "start"
  /\ inp \in InvArgs
  /\ out = NotCalled

\* if k == 0: raise ZeroDivisionError
InvModTest ==
  /\ pc = "start"
  /\ out' = IF inp = IntZero THEN Raised("ZeroDivisionError") ELSE out
  /\ pc' = IF inp = IntZero THEN "done" ELSE "pow"
  /\ UNCHANGED inp

\* return pow(k, p - 2, p)
InvModPow ==
  /\ pc = "pow"
  /\ out' = _inv_mod(inp, SECP_P)
  /\ pc' = "done"
  /\ UNCHANGED inp

InvNext == InvModTest \/ InvModPow

SpecInv == InvInit /\ [][InvNext]_vars

(* C23: modular inverse.  For every integer a congruent to 0 modulo P      *)
(* (a = 0 and every non-zero multiple of P), _inv_mod(a, P) fails with     *)
(* ZeroDivisionError; for every other a, negative ones too, it returns b   *)
(* in 0 .. P-1 with a * b = 1 (mod P).                                     *)
InverseOrDivisionByZero ==
  pc = "done" =>
    IF IntMod(inp, SECP_P) = IntZero
    THEN out = Raised("ZeroDivisionError")
    ELSE /\ IsReturn(out)
         /\ ~out.val.neg
         /\ IntLess(out.val, SECP_P)
         /\ IntMod(IntMul(inp, out.val), SECP_P) = IntOf(1)

\* what the code keeps of it: ZeroDivisionError for a = 0 itself, an inverse
\* for every a that is not a multiple of P
InverseUnlessMultiple ==
  pc = "done" =>
    /\ inp = IntZero => out = Raised("ZeroDivisionError")
    /\ IntMod(inp, SECP_P) # IntZero =>
         /\ IsReturn(out)
         /\ ~out.val.neg
         /\ IntLess(out.val, SECP_P)
         /\ IntMod(IntMul(inp, out.val), SECP_P) = IntOf(1)

\* what _inv_mod does with a non-zero multiple of P: it returns 0
InverseOfMultiple ==
  (pc = "done" /\ inp # IntZero /\ IntMod(inp, SECP_P) = IntZero) => out = Returned(IntZero)

(***************************************************************************)
(* _ec_mul(k, p) statement by statement, called on a scalar and a point or *)
(* by privkey_to_pubkey(priv) on the key's integer and G.  out.invs lists  *)
(* the arguments _inv_mod has received in the call's additions.            *)
(***************************************************************************)
MaxMulScalar == 3

MaxMulKey == 3

MulScalars ==
  {IntOf(k) : k \in -MaxMulScalar..MaxMulScalar}
    \cup {SECP_N, IntNeg(SECP_N), IntAdd(SECP_N, SECP_N)}

\* G, 2G and the point at infinity
MulPoints ==
  {G, INF} \cup {r.val : r \in {q \in {_ec_mul(IntOf(2), G)} : IsReturn(q)}}

MulKeys == {KeyBytes(IntOf(k)) : k \in 0..MaxMulKey} \cup {KeyBytes(SECP_N), <<>>}

MulInit ==
  /\ pc = "start"
  /\ With(MulPoints, LAMBDA points :
       inp \in [op : {"_ec_mul"}, k : MulScalars, p : points]
                 \cup [op : {"privkey_to_pubkey"}, priv : MulKeys])
  /\ out = [k |-> IntZero, p |-> INF, res |-> INF, add |-> INF, invs |-> <<>>,
            result |-> NotCalled, pub |-> NotCalled]

\* the argument of _inv_mod in _ec_add(p1, p2)
SlopeDivisor(p1, p2) ==
  IF p1.x = p2.x /\ p1.y = p2.y THEN IntMul(IntOf(2), p1.y) ELSE IntSub(p2.x, p1.x)

\* invs after _ec_add(p1, p2)
Inverted(invs, p1, p2) ==
  IF EarlyReturn(p1, p2) THEN invs ELSE Append(invs, SlopeDivisor(p1, p2))

\* a script's call _ec_mul(k, p)
MulCall ==
  /\ pc = "start"
  /\ inp.op = "_ec_mul"
  /\ out' = [out EXCEPT !.k = inp.k, !.p = inp.p]
  /\ pc' = "call"
  /\ UNCHANGED inp

\* privkey_to_pubkey up to P = _ec_mul(k, G)
KeyCheck ==
  /\ pc = "start"
  /\ inp.op = "privkey_to_pubkey"
  /\ With(PubkeyEntry(inp.priv), LAMBDA s :
       /\ out' = [out EXCEPT !.k = s.k, !.p = G, !.pub = s.result]
       /\ pc' = IF s.pc = "done" THEN "done" ELSE "call")
  /\ UNCHANGED inp

\* the two tests at the head of _ec_mul; the call with -k returns what it returns
MulEntry ==
  /\ pc = "call"
  /\ IF IntMod(out.k, SECP_N) = IntZero \/ out.p.inf
     THEN out' = [out EXCEPT !.result = Returned(INF)] /\ pc' = "returned"
     ELSE IF IntLess(out.k, IntZero)
     THEN out' = [out EXCEPT !.k = IntNeg(out.k), !.p = Negated(out.p)] /\ pc' = "call"
     ELSE out' = [out EXCEPT !.res = INF, !.add = out.p] /\ pc' = "while"
  /\ UNCHANGED inp

\* while k: ... return res
MulWhile ==
  /\ pc = "while"
  /\ IF out.k = IntZero
     THEN out' = [out EXCEPT !.result = Returned(out.res)] /\ pc' = "returned"
     ELSE out' = out /\ pc' = "odd"
  /\ UNCHANGED inp

\* if k & 1: res = _ec_add(res, add)
MulOdd ==
  /\ pc = "odd"
  /\ IF IntOdd(out.k)
     THEN With(_ec_add(out.res, out.add), LAMBDA sum :
            /\ out' = [out EXCEPT !.invs = Inverted(@, out.res, out.add),
                                  !.res = IF IsReturn(sum) THEN sum.val ELSE @,
                                  !.result = IF IsReturn(sum) THEN @ ELSE sum]
            /\ pc' = IF IsReturn(sum) THEN "double" ELSE "returned")
     ELSE out' = out /\ pc' = "double"
  /\ UNCHANGED inp

\* add = _ec_add(add, add)
MulDouble ==
  /\ pc = "double"
  /\ With(_ec_add(out.add, out.add), LAMBDA sum :
       /\ out' = [out EXCEPT !.invs = Inverted(@, out.add, out.add),
                             !.add = IF IsReturn(sum) THEN sum.val ELSE @,
                             !.result = IF IsReturn(sum) THEN @ ELSE sum]
       /\ pc' = IF IsReturn(sum) THEN "shift" ELSE "returned")
  /\ UNCHANGED inp

\* k >>= 1
MulShift ==
  /\ pc = "shift"
  /\ out' = [out EXCEPT !.k = IntHalf(@)]
  /\ pc' = "while"
  /\ UNCHANGED inp

\* the rest of privkey_to_pubkey: x, y, uncompressed, xy
KeyEncode ==
  /\ pc = "returned"
  /\ inp.op = "privkey_to_pubkey"
  /\ out' = [out EXCEPT !.pub = Encoded(out.result)]
  /\ pc' = "done"
  /\ UNCHANGED inp

MulNext ==
  \/ MulCall
  \/ KeyCheck
  \/ MulEntry
  \/ MulWhile
  \/ MulOdd
  \/ MulDouble
  \/ MulShift
  \/ KeyEncode

SpecMul == MulInit /\ [][MulNext]_vars

\* the step machine returns what the operators do
MulIsEcMul ==
  /\ (pc = "returned" /\ inp.op = "_ec_mul") => out.result = _ec_mul(inp.k, inp.p)
  /\ (pc = "done" /\ inp.op = "privkey_to_pubkey") => out.pub = privkey_to_pubkey(inp.priv)

\* 0 <= x, y < P and y^2 = x^3 + 7 (mod P)
OnCurve(q) ==
  /\ ~q.x.neg
  /\ ~q.y.neg
  /\ IntLess(q.x, SECP_P)
  /\ IntLess(q.y, SECP_P)
  /\ IntMod(IntSub(IntMul(q.y, q.y),
                   IntAdd(IntMul(IntMul(q.x, q.x), q.x), IntOf(7))), SECP_P) = IntZero

\* the point at infinity, or a point of the curve
CurvePoint(q) == q.inf \/ OnCurve(q)

(* C21: curve-point invariant.  For on-curve operands, every result of     *)
(* _ec_add and every intermediate and final value of _ec_mul (add, res and *)
(* the point returned) is the point at infinity or a point with            *)
(* 0 <= x, y < P and y^2 = x^3 + 7 (mod P); the point of the public key    *)
(* returned for a valid private key is not the point at infinity.          *)
CurvePointInvariant ==
  /\ CurvePoint(out.p) /\ CurvePoint(out.res) /\ CurvePoint(out.add)
  /\ pc \in {"returned", "done"} /\ out.result # NotCalled =>
       IsReturn(out.result) /\ CurvePoint(out.result.val)
  /\ (pc = "done" /\ inp.op = "privkey_to_pubkey" /\ ValidKey(inp.priv)) =>
       /\ IsReturn(out.result)
       /\ ~out.result.val.inf
       /\ IsReturn(out.pub)

\* 3 * 2G was computed: res is a point of the curve that is neither 2G nor
\* the 4G that add has become, and the point returned is res
CurvePointInvariantWitness ==
  /\ pc = "returned"
  /\ inp.op = "_ec_mul"
  /\ inp.k = IntOf(3)
  /\ ~inp.p.inf
  /\ inp.p # G
  /\ out.result = Returned(out.res)
  /\ OnCurve(out.res)
  /\ OnCurve(out.add)
  /\ out.res # out.add
  /\ out.res # inp.p
  /\ Len(out.invs) = 3

(* C24: division by zero is unreachable for valid inputs.  For every       *)
(* private key k with 1 <= k <= N-1, no call of _inv_mod made during       *)
(* privkey_to_pubkey(k) receives an argument that is 0 modulo P, and the   *)
(* derivation raises no ZeroDivisionError.                                 *)
NoDivisionByZero ==
  (inp.op = "privkey_to_pubkey" /\ ValidKey(inp.priv)) =>
    /\ \A j \in 1..Len(out.invs) : IntMod(out.invs[j], SECP_P) # IntZero
    /\ out.result # Raised("ZeroDivisionError")
    /\ out.pub # Raised("ZeroDivisionError")
    /\ pc = "done" => IsReturn(out.pub)

\* the key 3 gave its public key after three calls of _inv_mod: for G + G,
\* G + 2G and 2G + 2G
NoDivisionByZeroWitness ==
  /\ pc = "done"
  /\ inp.op = "privkey_to_pubkey"
  /\ inp.priv = KeyBytes(IntOf(3))
  /\ Len(out.invs) = 3
  /\ out.invs[1] = IntMul(IntOf(2), SECP_GY)
  /\ out.invs[2] # out.invs[3]
  /\ IsReturn(out.pub)

\* n times the point q, n >= 1, by n - 1 additions of q
RECURSIVE Repeated(_, _)
Repeated(n, q) == IF n = 1 THEN q ELSE _ec_add(Repeated(n - 1, q), q).val

\* |k| as a number of additions, for the small scalars
Additions(k) == CHOOSE n \in 1..(MaxMulScalar + 1) : IntOf(n) = k \/ IntOf(-n) = k

\* both the point at infinity, or the same point
SamePoint(a, b) == (a.inf /\ b.inf) \/ a = b

\* _ec_mul(k, p) = _ec_mul(k mod N, p) where k mod N is another scalar than k
\* and a small one, and for negative k the result is |k| times (x, P - y)
ReducedAndNegated ==
  /\ IsReturn(out.result)
  /\ (inp.k # IntMod(inp.k, SECP_N)
        /\ IntLess(IntMod(inp.k, SECP_N), IntOf(MaxMulScalar + 1))) =>
       out.result = _ec_mul(IntMod(inp.k, SECP_N), inp.p)
  /\ (IntLess(inp.k, IntZero) /\ IntLess(IntOf(-(MaxMulScalar + 2)), inp.k)) =>
       SamePoint(out.result.val,
                 Repeated(Additions(inp.k),
                          ECPoint(inp.p.x, IntSub(SECP_P, inp.p.y), inp.p.inf)))

MaxKept == 3

\* the last MaxKept of the values delivered
Kept(draws) == IF Len(draws) > MaxKept THEN Tail(draws) ELSE draws

KeygenFairInit ==
  /\ pc = "loop"
  /\ \E accepted \in SUBSET Tokens32 :
       /\ accepted = {b \in Tokens32 : KeyAccepted(b)}
       /\ inp = [accepted |-> accepted]
  /\ out = [drawn |-> <<>>, passes |-> 0, result |-> NotCalled]

\* a pass of the loop on the 32 bytes b
Pass(b) ==
  /\ pc = "loop"
  /\ IF b \in inp.accepted
     THEN pc' = "returned"
          /\ out' = [drawn |-> Kept(Append(out.drawn, b)),
                     passes |-> Min(out.passes + 1, MaxKept),
                     result |-> Returned(b)]
     ELSE pc' = "loop"
          /\ out' = [out EXCEPT !.drawn = Kept(Append(@, b)),
                                !.passes = Min(@ + 1, MaxKept)]
  /\ UNCHANGED inp

DrawAny == \E b \in Tokens32 : Pass(b)

\* the source delivers a value in [1, N-1]
DrawInRange == \E b \in {t \in Tokens32 : ValidKey(t)} : Pass(b)

KeygenFairNext == DrawAny

SpecKeygenFair ==
  KeygenFairInit /\ [][KeygenFairNext]_vars /\ WF_vars(DrawAny) /\ SF_vars(DrawInRange)

(* C25: key generation terminates.  new_secp256k1_private_key discards     *)
(* every draw whose integer is 0 or >= N and draws a fresh 32 bytes for    *)
(* the next attempt: a pass on such a draw returns nothing and leaves the  *)
(* loop running, where any value of the source may be drawn next, and what *)
(* is returned is the last draw, in [1, N-1]; and with a source that       *)
(* eventually delivers a value in [1, N-1] the function eventually         *)
(* returns.                                                                *)
KeyGenerationTerminates ==
  /\ [](pc = "returned" =>
          /\ out.result = Returned(out.drawn[Len(out.drawn)])
          /\ ValidKey(out.result.val))
  /\ [][~ValidKey(out'.drawn[Len(out'.drawn)])
          => (pc' = "loop" /\ out'.result = NotCalled)]_vars
  /\ [](pc = "loop" => \A b \in Tokens32 : ENABLED Pass(b))
  /\ <>(pc = "returned")

\* the key N - 1 was returned on the third pass or a later one, after 0 and
\* N + 1 had been discarded
KeyGenerationTerminatesWitness ==
  /\ pc = "returned"
  /\ out.passes = MaxKept
  /\ Len(out.drawn) = 3
  /\ out.drawn[1] = Fill0(32)
  /\ out.drawn[2] = KeyBytes(IntAdd(SECP_N, IntOf(1)))
  /\ out.result = Returned(KeyBytes(IntSub(SECP_N, IntOf(1))))

(***************************************************************************)
(* per_key_transfer_flow with scp_with_retry inside it.  inp.items are the *)
(* key sets (their transfer modes; the local directory of key set i is i), *)
(* out.local the local directories that exist, out.log[i] what happened to *)
(* key set i, in order: the answers given, the calls of transfer_fn with   *)
(* their outcome, the sleeps, what scp_with_retry returned and the calls   *)
(* of delete_tree.  An answer is the line typed at the prompt.             *)
(***************************************************************************)
MaxItems == 2

MaxTransfers == 3

Whitespace == {" ", "\t", "\n"}

\* str.strip()
RECURSIVE lstrip(_)
lstrip(s) == IF s # <<>> /\ s[1] \in Whitespace THEN lstrip(Tail(s)) ELSE s

strip(s) == Reverse(lstrip(Reverse(lstrip(s))))

\* the prompt is repeated
Again == [kind |-> "again"]

\* prompt_yes_no on one line typed: what it returns, or the prompt again
prompt_yes_no(line, default_yes) ==
  With(lower(strip(line)), LAMBDA ans :
    IF ans = <<>> THEN Returned(default_yes)
    ELSE IF ans \in {<<"y">>, <<"y", "e", "s">>} THEN Returned(TRUE)
    ELSE IF ans \in {<<"n">>, <<"n", "o">>} THEN Returned(FALSE)
    ELSE Again)

Lines == {<<>>, <<" ">>, <<"y">>, <<" ", "Y", "e", "s", "\n">>, <<"n">>, <<"N", "O">>,
          <<"o", "k">>}

Modes == {"dir", "files", "other"}

\* subprocess and shutil.which: what the transfer of a key set can come to
Outcomes == {"ok", "failed", "no ssh"}

\* do_transfer: scp_send_dir or scp_send_files for the modes known, False for
\* any other; ensure_ssh_tools exits when ssh or scp is missing
do_transfer(mode, outcome) ==
  IF mode \in {"dir", "files"}
  THEN IF outcome = "no ssh" THEN die("ssh/scp not found")
       ELSE Returned(outcome = "ok")
  ELSE Returned(FALSE)

\* "while not ok" of scp_with_retry going on whatever ok is
WhileAlways(ok) == TRUE

\* "while not ok" of scp_with_retry
WhileNotOk(ok) == ~ok

\* "if not ok: continue" of per_key_transfer_flow never taken
NotCompletedNever(ok) == FALSE

\* "if not ok: continue" of per_key_transfer_flow
NotCompleted(ok) == ~ok

Logged(event) == [out EXCEPT !.log[out.i] = Append(@, event)]

FlowInit ==
  /\ pc = "flow"
  /\ \E n \in 0..MaxItems : \E items \in [1..n -> Modes] : inp = [items |-> items]
  /\ out = [i |-> 0, ok |-> FALSE, local |-> 1..Len(inp.items),
            log |-> [i \in 1..Len(inp.items) |-> <<>>]]

\* "if not items: return" and the prompt for the review
FlowReview ==
  /\ pc = "flow"
  /\ UNCHANGED inp
  /\ IF inp.items = <<>>
     THEN pc' = "done" /\ UNCHANGED out
     ELSE \E line \in Lines :
            With(prompt_yes_no(line, FALSE), LAMBDA answer :
              /\ pc' = IF answer = Again THEN "flow" ELSE IF answer.val THEN "for" ELSE "done"
              /\ UNCHANGED out)

\* "for (disp, local_root, mode, files) in items"
FlowFor ==
  /\ pc = "for"
  /\ UNCHANGED inp
  /\ IF out.i < Len(inp.items)
     THEN pc' = "item" /\ out' = [out EXCEPT !.i = @ + 1]
     ELSE pc' = "done" /\ UNCHANGED out

\* "Transfer this key set over SCP?", then the destination
FlowItem ==
  /\ pc = "item"
  /\ UNCHANGED inp
  /\ \E line \in Lines :
       With(prompt_yes_no(line, FALSE), LAMBDA answer :
         IF answer = Again THEN UNCHANGED <<pc, out>>
         ELSE IF answer.val THEN pc' = "transfer" /\ out' = Logged("transfer? yes")
         ELSE pc' = "for" /\ out' = Logged("transfer? no"))

\* "ok = transfer_fn()" of scp_with_retry, before the loop and inside it
RetryTransfer ==
  /\ pc = "transfer"
  /\ UNCHANGED inp
  /\ \E outcome \in Outcomes :
       With(do_transfer(inp.items[out.i], outcome), LAMBDA r :
         IF IsReturn(r)
         THEN pc' = "while"
              /\ out' = [Logged(IF r.val THEN "call: True" ELSE "call: False")
                           EXCEPT !.ok = r.val]
         ELSE pc' = "exit" /\ out' = Logged("call: exit"))

\* "while not ok", "return True"
RetryWhile ==
  /\ pc = "while"
  /\ UNCHANGED inp
  /\ IF WhileNotOk(out.ok)
     THEN pc' = "retry" /\ UNCHANGED out
     ELSE pc' = "returned" /\ out' = [Logged("return True") EXCEPT !.ok = TRUE]

\* "Retry SCP after 15 seconds?", "return False"
RetryPrompt ==
  /\ pc = "retry"
  /\ UNCHANGED inp
  /\ \E line \in Lines :
       With(prompt_yes_no(line, TRUE), LAMBDA answer :
         IF answer = Again THEN UNCHANGED <<pc, out>>
         ELSE IF answer.val
         THEN /\ Len(SelectSeq(out.log[out.i],
                               LAMBDA e : e \in {"call: True", "call: False"})) < MaxTransfers
              /\ pc' = "sleep"
              /\ out' = Logged("retry? yes")
         ELSE pc' = "returned"
              /\ out' = [[out EXCEPT !.log[out.i] = @ \o <<"retry? no", "return False">>]
                           EXCEPT !.ok = FALSE])

\* "time.sleep(retry_delay_s)"
RetrySleep ==
  /\ pc = "sleep"
  /\ UNCHANGED inp
  /\ pc' = "transfer"
  /\ out' = Logged("sleep")

\* "ok = scp_with_retry(...)", "if not ok: continue"
FlowCompleted ==
  /\ pc = "returned"
  /\ UNCHANGED <<inp, out>>
  /\ pc' = IF NotCompleted(out.ok) THEN "for" ELSE "delete"

\* "Delete local original for this key set?" and delete_tree, which removes
\* what it can
FlowDelete ==
  /\ pc = "delete"
  /\ UNCHANGED inp
  /\ \E line \in Lines :
       With(prompt_yes_no(line, FALSE), LAMBDA answer :
         IF answer = Again THEN UNCHANGED <<pc, out>>
         ELSE IF answer.val
         THEN /\ pc' = "for"
              /\ \E removed \in BOOLEAN :
                   out' = [[out EXCEPT !.log[out.i] = @ \o <<"delete? yes", "delete_tree">>]
                             EXCEPT !.local = IF removed THEN @ \ {out.i} ELSE @]
         ELSE pc' = "for" /\ out' = Logged("delete? no"))

FlowNext ==
  \/ FlowReview
  \/ FlowFor
  \/ FlowItem
  \/ RetryTransfer
  \/ RetryWhile
  \/ RetryPrompt
  \/ RetrySleep
  \/ FlowCompleted
  \/ FlowDelete

SpecFlow == FlowInit /\ [][FlowNext]_vars

Calls == {"call: True", "call: False", "call: exit"}

\* what happened inside scp_with_retry for a key set
RetryEvents(log) ==
  SelectSeq(log, LAMBDA e : e \in Calls \cup {"retry? yes", "retry? no", "sleep",
                                              "return True", "return False"})

\* the outcome of the last call of transfer_fn before position j, "" if none
LastCall(r, j) ==
  IF \E k \in 1..(j - 1) : r[k] \in Calls
  THEN r[CHOOSE k \in 1..(j - 1) : r[k] \in Calls /\ \A l \in (k + 1)..(j - 1) : r[l] \notin Calls]
  ELSE ""

(* C26: scp_with_retry calls transfer_fn at least once (it is the first    *)
(* thing it does), never calls it again after a call has succeeded, asks   *)
(* the user before every retry (a retry follows the sleep that follows a   *)
(* "yes" to the prompt that follows a failed call), returns True if and    *)
(* only if the last call of transfer_fn succeeded, and returns False only  *)
(* immediately after the user declined a retry.                            *)
ScpRetry ==
  \A i \in 1..Len(inp.items) :
    With(RetryEvents(out.log[i]), LAMBDA r :
      /\ r # <<>> => r[1] \in Calls
      /\ \A j \in 1..Len(r) :
           /\ r[j] = "call: True" => \A k \in (j + 1)..Len(r) : r[k] \notin Calls
           /\ (r[j] \in Calls /\ j > 1) =>
                /\ j > 3
                /\ r[j - 1] = "sleep"
                /\ r[j - 2] = "retry? yes"
                /\ r[j - 3] = "call: False"
           /\ r[j] = "return True" => (LastCall(r, j) = "call: True" /\ j = Len(r))
           /\ r[j] = "return False" =>
                /\ LastCall(r, j) = "call: False"
                /\ j = Len(r)
                /\ r[j - 1] = "retry? no"
           /\ (r[j] = "call: True" /\ pc \notin {"while", "exit"}) =>
                (j < Len(r) /\ r[j + 1] = "return True"))

\* the first key set failed twice and was given up, the second succeeded at
\* the third call
ScpRetryWitness ==
  /\ Len(inp.items) = 2
  /\ RetryEvents(out.log[1]) =
       <<"call: False", "retry? yes", "sleep", "call: False", "retry? no", "return False">>
  /\ RetryEvents(out.log[2]) =
       <<"call: False", "retry? yes", "sleep", "call: False", "retry? yes", "sleep",
         "call: True", "return True">>

\* the transfer of the key set ended in success and the user then confirmed
\* the deletion
DeletedAfterSuccess(log) ==
  /\ Len(log) > 3
  /\ log[Len(log)] = "delete_tree"
  /\ log[Len(log) - 1] = "delete? yes"
  /\ log[Len(log) - 2] = "return True"
  /\ log[Len(log) - 3] = "call: True"
  /\ Len(SelectSeq(log, LAMBDA e : e = "delete_tree")) = 1

(* C27: local originals are deleted only after a confirmed successful      *)
(* transfer.  delete_tree is called on the directory of a key set only if  *)
(* the transfer of that key set ended in success (the last call of         *)
(* transfer_fn returned True and scp_with_retry returned True) and the     *)
(* user then answered yes to the deletion; a key set skipped, one whose    *)
(* transfer failed and was abandoned, one the run exited on and one that   *)
(* was not reached keep their directory.                                   *)
LocalOriginalsKept ==
  \A i \in 1..Len(inp.items) :
    With(out.log[i], LAMBDA log :
      /\ (\E j \in 1..Len(log) : log[j] = "delete_tree") => DeletedAfterSuccess(log)
      /\ i \notin out.local => DeletedAfterSuccess(log)
      /\ (\E j \in 1..Len(log) :
            log[j] \in {"transfer? no", "return False", "call: exit", "delete? no"})
           => (i \in out.local /\ \A j \in 1..Len(log) : log[j] # "delete_tree"))

\* the first key set was deleted after its second transfer succeeded, the
\* second was given up after a failure and is still there
LocalOriginalsKeptWitness ==
  /\ Len(inp.items) = 2
  /\ pc = "done"
  /\ out.local = {2}
  /\ out.log[1] = <<"transfer? yes", "call: False", "retry? yes", "sleep", "call: True",
                    "return True", "delete? yes", "delete_tree">>
  /\ out.log[2] = <<"transfer? yes", "call: False", "retry? no", "return False">>

(***************************************************************************)
(* tx_simulator: the choice of sender and recipient in the main loop.      *)
(* inp is the configuration the selectors were built from (weights after   *)
(* padding, PyNone when none were given), out.cursor the _cursor of the    *)
(* SenderSelector, out.passes the passes of the loop of next made so far,  *)
(* out.sender what was chosen as sender and out.sent the last pair         *)
(* (sender, recipient) chosen.  random.* may deliver any value it can.     *)
(***************************************************************************)
MaxAccounts == 3

SENDER_MODES == {"round-robin", "single", "weighted", "multi-hot", "random"}

\* the recipient modes modelled
RecipientModes == {"ring", "star-fan-out", "star-fan-in"}

\* a list of weights
Weights(v) == [kind |-> "list", items |-> v]

\* SenderSelector and RecipientSelector after __init__, every parameter that
\* the sender mode does not read at its default
Selectors ==
  UNION {
    UNION {
      {[sender_mode |-> "round-robin", n |-> n, single_pos |-> 0, hot_count |-> 1,
        weights |-> PyNone, recipient_mode |-> r, hub_pos |-> h],
       [sender_mode |-> "random", n |-> n, single_pos |-> 0, hot_count |-> 1,
        weights |-> PyNone, recipient_mode |-> r, hub_pos |-> h]}
      \cup {[sender_mode |-> "single", n |-> n, single_pos |-> s, hot_count |-> 1,
             weights |-> PyNone, recipient_mode |-> r, hub_pos |-> h] : s \in 0..(n - 1)}
      \cup {[sender_mode |-> "multi-hot", n |-> n, single_pos |-> 0, hot_count |-> k,
             weights |-> PyNone, recipient_mode |-> r, hub_pos |-> h] : k \in 1..n}
      \cup {[sender_mode |-> "weighted", n |-> n, single_pos |-> 0, hot_count |-> 1,
             weights |-> w, recipient_mode |-> r, hub_pos |-> h] :
              w \in {PyNone} \cup {Weights(v) : v \in {u \in [1..n -> {0, 1}] :
                                                       \E i \in 1..n : u[i] > 0}}}
      : h \in 0..(n - 1), r \in RecipientModes}
    : n \in 2..MaxAccounts}

\* random.choices(range(n), weights, k=1)[0]: a position of positive weight
Choices(n, weights) ==
  IF weights = PyNone THEN 0..(n - 1) ELSE {i \in 0..(n - 1) : weights.items[i + 1] > 0}

\* SenderSelector._pick: the positions it may return, each with the cursor
\* it leaves
_pick(sel, cursor) ==
  IF sel.sender_mode = "round-robin"
  THEN {[pos |-> cursor % sel.n, cursor |-> (cursor + 1) % sel.n]}
  ELSE IF sel.sender_mode = "single"
  THEN {[pos |-> sel.single_pos, cursor |-> cursor]}
  ELSE IF sel.sender_mode = "weighted"
  THEN {[pos |-> i, cursor |-> cursor] : i \in Choices(sel.n, sel.weights)}
  ELSE IF sel.sender_mode = "multi-hot"
  THEN {[pos |-> i, cursor |-> cursor] : i \in 0..(sel.hot_count - 1)}
  ELSE {[pos |-> i, cursor |-> cursor] : i \in 0..(sel.n - 1)}

\* RecipientSelector.overrides_sender
overrides_sender(sel) == sel.recipient_mode = "star-fan-out"

\* RecipientSelector.sender_exclude
sender_exclude(sel) ==
  IF sel.recipient_mode = "star-fan-in" THEN Returned(sel.hub_pos) ELSE PyNone

\* RecipientSelector.next: the positions it may return
RecipientNext(sel, sender_pos) ==
  IF sel.recipient_mode = "ring" THEN {(sender_pos + 1) % sel.n}
  ELSE IF sel.recipient_mode = "star-fan-out"
  THEN With({i \in 0..(sel.n - 1) : i # sel.hub_pos}, LAMBDA others :
         IF others # {} THEN others ELSE {0})
  ELSE {sel.hub_pos}

\* "if exclude is not None and pos == exclude and self.n > 1: continue"
Skipped(sel, exclude, pos) == exclude # PyNone /\ pos = exclude.val /\ sel.n > 1

SenderInit ==
  /\ pc = "sender"
  /\ inp \in Selectors
  /\ out = [cursor |-> 0, passes |-> 0, sender |-> NotCalled, sent |-> <<>>]

\* "if recip_sel.overrides_sender(): sender_pos = recip_sel.forced_sender()",
\* else the call of sender_sel.next
ChooseSender ==
  /\ pc = "sender"
  /\ UNCHANGED inp
  /\ IF overrides_sender(inp)
     THEN pc' = "recipient"
          /\ out' = [out EXCEPT !.sender = Returned(inp.hub_pos)]
     ELSE pc' = "next"
          /\ out' = [out EXCEPT !.passes = 0, !.sender = NotCalled]

\* a pass of "for _ in range(self.n * 2)"
NextPass ==
  /\ pc = "next"
  /\ out.passes < inp.n * 2
  /\ UNCHANGED inp
  /\ \E picked \in _pick(inp, out.cursor) :
       IF Skipped(inp, sender_exclude(inp), picked.pos)
       THEN pc' = "next"
            /\ out' = [out EXCEPT !.cursor = picked.cursor, !.passes = @ + 1]
       ELSE pc' = "recipient"
            /\ out' = [out EXCEPT !.cursor = picked.cursor, !.passes = @ + 1,
                                  !.sender = Returned(picked.pos)]

\* "return self._pick()" after the loop
NextLast ==
  /\ pc = "next"
  /\ out.passes = inp.n * 2
  /\ UNCHANGED inp
  /\ \E picked \in _pick(inp, out.cursor) :
       /\ pc' = "recipient"
       /\ out' = [out EXCEPT !.cursor = picked.cursor, !.sender = Returned(picked.pos)]

\* "recip_pos = recip_sel.next(sender_pos)"
ChooseRecipient ==
  /\ pc = "recipient"
  /\ UNCHANGED inp
  /\ \E recip_pos \in RecipientNext(inp, out.sender.val) :
       /\ pc' = "sender"
       /\ out' = [out EXCEPT !.sent = <<out.sender.val, recip_pos>>]

SenderNext ==
  \/ ChooseSender
  \/ NextPass
  \/ NextLast
  \/ ChooseRecipient

SpecSender == SenderInit /\ [][SenderNext]_vars

(* C28: star-fan-in sends only from non-hub accounts.  With recipient mode *)
(* star-fan-in and at least 2 accounts, for every sender mode and every    *)
(* sender configuration, SenderSelector.next(exclude=hub) never returns    *)
(* the hub position, and no pair chosen goes from the hub to itself.       *)
FanInNeverFromHub ==
  (inp.recipient_mode = "star-fan-in" /\ inp.n >= 2) =>
    /\ out.sender # Returned(inp.hub_pos)
    /\ out.sent # <<inp.hub_pos, inp.hub_pos>>

\* round-robin skips the hub: the pass after the one that picked it picks
\* another position
RoundRobinSkipsHub ==
  (inp.recipient_mode = "star-fan-in" /\ inp.sender_mode = "round-robin") =>
    /\ out.sender # Returned(inp.hub_pos)
    /\ out.sent # <<inp.hub_pos, inp.hub_pos>>
    /\ out.passes <= 2

\* the single sender is the hub: every pass picks it, and so does the pick
\* after the loop
SingleSenderIsHub ==
  (/\ inp.recipient_mode = "star-fan-in"
   /\ inp.sender_mode = "single"
   /\ inp.single_pos = inp.hub_pos
   /\ out.sent # <<>>)
    => out.sent = <<inp.hub_pos, inp.hub_pos>>

(***************************************************************************)
(* tx_simulator: the main loop.  inp.max_inflight is --max-inflight,       *)
(* out.pending the dict pending (a transaction hash stands for the sender  *)
(* and nonce it was signed with), out.nonces the dict nonces by position   *)
(* of the account, out.receipts the hashes get_transaction_receipt         *)
(* returned a receipt for in the last poll, out.action the position of the *)
(* sender of the action chosen and out.event what the last pass came to.   *)
(* The node, the clock and the selectors may answer anything; the block    *)
(* number, the kind of action, the recipient and the value are read by the *)
(* timing gate, the balance checks and the prints only and are left out.   *)
(***************************************************************************)
MaxInflight == 2

MaxSenders == 2

MaxNonce == 2

\* "len(pending) >= args.max_inflight" as "len(pending) > args.max_inflight"
InflightOver(pending, max_inflight) == Cardinality(pending) > max_inflight

\* "if len(pending) >= args.max_inflight"
InflightFull(pending, max_inflight) == Cardinality(pending) >= max_inflight

\* the hash of the transaction signed by the account at from_pos with nonce
TxHash(from_pos, nonce) == <<from_pos, nonce>>

LoopInit ==
  /\ pc = "poll"
  /\ \E m \in 1..MaxInflight : inp = [max_inflight |-> m, n |-> MaxSenders]
  /\ out = [pending |-> {}, nonces |-> [a \in 0..(MaxSenders - 1) |-> 0],
            receipts |-> {}, action |-> PyNone, event |-> "start"]

\* the poll of the receipts: done holds the hashes a receipt came back for,
\* an exception counting as none
LoopPoll ==
  /\ pc = "poll"
  /\ UNCHANGED inp
  /\ \E done \in SUBSET {meta.tx_hash : meta \in out.pending} :
       /\ pc' = "cap"
       /\ out' = [out EXCEPT !.receipts = done,
                             !.pending = {meta \in @ : meta.tx_hash \notin done},
                             !.action = PyNone,
                             !.event = "polled"]

\* the inflight cap
LoopCap ==
  /\ pc = "cap"
  /\ UNCHANGED inp
  /\ IF InflightFull(out.pending, inp.max_inflight)
     THEN pc' = "poll" /\ out' = [out EXCEPT !.event = "capped"]
     ELSE pc' = "timing" /\ UNCHANGED out

\* the timing gate
LoopTiming ==
  /\ pc = "timing"
  /\ UNCHANGED inp
  /\ \E should_send \in BOOLEAN :
       IF should_send
       THEN pc' = "choose" /\ UNCHANGED out
       ELSE pc' = "poll" /\ out' = [out EXCEPT !.event = "gated"]

\* the action chosen: a top-up, a transaction of the distributions, or none
LoopChoose ==
  /\ pc = "choose"
  /\ UNCHANGED inp
  /\ \/ pc' = "poll" /\ out' = [out EXCEPT !.event = "no action"]
     \/ \E from_pos \in 0..(inp.n - 1) :
          /\ pc' = "guard"
          /\ out' = [out EXCEPT !.action = Returned(from_pos)]

\* the final balance guard
LoopGuard ==
  /\ pc = "guard"
  /\ UNCHANGED inp
  /\ \E funded \in BOOLEAN :
       IF funded
       THEN pc' = "send" /\ UNCHANGED out
       ELSE pc' = "poll" /\ out' = [out EXCEPT !.event = "skipped"]

\* sign_and_send and what follows: the nonce advanced and the transaction
\* tracked, or the exception reported
LoopSend ==
  /\ pc = "send"
  /\ UNCHANGED inp
  /\ pc' = "poll"
  /\ With(out.action.val, LAMBDA from_pos :
       With(out.nonces[from_pos], LAMBDA nonce :
         \/ /\ nonce < MaxNonce
            /\ out' = [out EXCEPT !.nonces[from_pos] = @ + 1,
                                  !.pending = @ \cup {[tx_hash |-> TxHash(from_pos, nonce),
                                                       sender |-> from_pos,
                                                       nonce |-> nonce]},
                                  !.event = "sent"]
         \/ out' = [out EXCEPT !.event = "send failed"]))

LoopNext ==
  \/ LoopPoll
  \/ LoopCap
  \/ LoopTiming
  \/ LoopChoose
  \/ LoopGuard
  \/ LoopSend

SpecLoop == LoopInit /\ [][LoopNext]_vars

(* C29: inflight cap.  In the main loop, for max_inflight >= 1, the number *)
(* of tracked pending transactions never exceeds max_inflight; a           *)
(* transaction leaves pending only in a step in which a receipt for it was *)
(* returned; and in every step the local nonce of a sender goes up by      *)
(* exactly 1 if the step is a successful send by that sender and is        *)
(* unchanged otherwise (a failed send, a skip, a pass without action).     *)
InflightCap ==
  /\ [](inp.max_inflight >= 1 => Cardinality(out.pending) <= inp.max_inflight)
  /\ [][\A meta \in out.pending : meta \notin out'.pending =>
          (pc = "poll" /\ meta.tx_hash \in out'.receipts)]_vars
  /\ [][\A a \in 0..(inp.n - 1) :
          out'.nonces[a] =
            IF pc = "send" /\ out'.event = "sent" /\ out.action = Returned(a)
            THEN out.nonces[a] + 1
            ELSE out.nonces[a]]_vars
  /\ [][(pc = "send" /\ out'.event = "sent") =>
          /\ Cardinality(out'.pending) = Cardinality(out.pending) + 1
          /\ \E meta \in out'.pending \ out.pending :
               /\ meta.sender = out.action.val
               /\ meta.nonce = out.nonces[out.action.val]]_vars

\* pending is full with two transactions of account 0 after a failed send
\* and a skip, and the pass was capped
InflightCapWitness ==
  /\ inp.max_inflight = 2
  /\ out.event = "capped"
  /\ out.nonces[0] = 2
  /\ {meta.tx_hash : meta \in out.pending} = {TxHash(0, 0), TxHash(0, 1)}

(***************************************************************************)
(* replace_bytecode.  A str is the sequence of its characters; inp holds   *)
(* the arguments and the content of the target file before the call,       *)
(* out.target and out.bak the content of the target file and of its .bak   *)
(* file (Absent when there is none), out.old_bc, out.new_bc, out.count and *)
(* out.pre_existing the local variables, out.result what was returned.     *)
(***************************************************************************)
MaxContent == 3

MaxBytecode == 2

Alphabet == {"0", "x", "a"}

\* the strings of at most n characters, and those of at least one
Strings(n) == UNION {[1..k -> Alphabet] : k \in 0..n}

\* str.count(sub) from position i on: occurrences that do not overlap
RECURSIVE CountFrom(_, _, _)
CountFrom(s, sub, i) ==
  IF i + Len(sub) > Len(s) + 1 THEN 0
  ELSE IF SubSeq(s, i, i + Len(sub) - 1) = sub
  THEN 1 + CountFrom(s, sub, i + Max(Len(sub), 1))
  ELSE CountFrom(s, sub, i + 1)

\* len(s) + 1 for the empty sub
count(s, sub) == IF sub = <<>> THEN Len(s) + 1 ELSE CountFrom(s, sub, 1)

\* str.replace(old, new) from position i on, for a non-empty old
RECURSIVE ReplaceFrom(_, _, _, _)
ReplaceFrom(s, old, new, i) ==
  IF i > Len(s) THEN <<>>
  ELSE IF i + Len(old) <= Len(s) + 1 /\ SubSeq(s, i, i + Len(old) - 1) = old
  THEN new \o ReplaceFrom(s, old, new, i + Len(old))
  ELSE <<s[i]>> \o ReplaceFrom(s, old, new, i + 1)

replace(s, old, new) == ReplaceFrom(s, old, new, 1)

\* "if backup: shutil.copy2(bak, str(target))" after a verification mismatch
Restored(backup) == backup

ReplaceInit ==
  /\ pc = "exists"
  /\ \E content \in {Absent} \cup {Returned(c) : c \in Strings(MaxContent)},
        old_bc \in Strings(MaxBytecode) \ {<<>>},
        new_bc \in Strings(MaxBytecode) \ {<<>>},
        dry_run \in BOOLEAN, backup \in BOOLEAN :
       /\ inp = [content |-> content, old_bc |-> old_bc, new_bc |-> new_bc,
                 dry_run |-> dry_run, backup |-> backup]
       /\ out = [target |-> content, bak |-> Absent, old_bc |-> old_bc, new_bc |-> new_bc,
                 count |-> 0, pre_existing |-> 0, result |-> NotCalled]

\* "if not target.exists(): sys.exit(1)", "if old_bc == new_bc: return 0"
ReplaceEntry ==
  /\ pc = "exists"
  /\ UNCHANGED inp
  /\ IF out.target = Absent
     THEN pc' = "exit" /\ out' = [out EXCEPT !.result = die("File not found")]
     ELSE IF out.old_bc = out.new_bc
     THEN pc' = "returned" /\ out' = [out EXCEPT !.result = Returned(0)]
     ELSE pc' = "count" /\ UNCHANGED out

\* the file read and counted, without the prefix and then with it; "No
\* matches found" and the dry run
ReplaceCount ==
  /\ pc = "count"
  /\ UNCHANGED inp
  /\ With(out.target.val, LAMBDA content :
       With(count(content, out.old_bc), LAMBDA plain :
         With(IF plain = 0 THEN count(content, <<"0", "x">> \o out.old_bc) ELSE plain,
              LAMBDA n :
           With(plain = 0 /\ n > 0, LAMBDA prefixed :
             With(IF prefixed THEN <<"0", "x">> \o out.new_bc ELSE out.new_bc, LAMBDA new_bc :
               /\ out' = [out EXCEPT
                            !.old_bc = IF prefixed THEN <<"0", "x">> \o @ ELSE @,
                            !.new_bc = new_bc,
                            !.count = n,
                            !.pre_existing = count(content, new_bc),
                            !.result = IF n = 0 THEN Returned(0)
                                       ELSE IF inp.dry_run THEN Returned(n)
                                       ELSE NotCalled]
               /\ pc' = IF n = 0 \/ inp.dry_run THEN "returned" ELSE "backup")))))

\* "if backup: shutil.copy2(str(target), bak)"
ReplaceBackup ==
  /\ pc = "backup"
  /\ UNCHANGED inp
  /\ pc' = "write"
  /\ out' = [out EXCEPT !.bak = IF inp.backup THEN out.target ELSE @]

\* the new content written to the temporary file and swapped in: the size
\* differs, an exception is raised before the swap, or the target is replaced
ReplaceWrite ==
  /\ pc = "write"
  /\ UNCHANGED inp
  /\ \E written \in {"ok", "size mismatch", "exception"} :
       IF written = "ok"
       THEN pc' = "verify"
            /\ out' = [out EXCEPT
                         !.target = Returned(replace(@.val, out.old_bc, out.new_bc))]
       ELSE pc' = "returned" /\ out' = [out EXCEPT !.result = Returned(0)]

\* the file read again and verified; the backup restored on a mismatch
ReplaceVerify ==
  /\ pc = "verify"
  /\ UNCHANGED inp
  /\ pc' = "returned"
  /\ With(count(out.target.val, out.old_bc), LAMBDA remaining :
       With(count(out.target.val, out.new_bc), LAMBDA found_new :
         IF remaining > 0 \/ found_new # out.count + out.pre_existing
         THEN out' = [out EXCEPT !.target = IF Restored(inp.backup) THEN out.bak ELSE @,
                                 !.result = Returned(0)]
         ELSE out' = [out EXCEPT !.result = Returned(out.count)]))

ReplaceNext ==
  \/ ReplaceEntry
  \/ ReplaceCount
  \/ ReplaceBackup
  \/ ReplaceWrite
  \/ ReplaceVerify

SpecReplace == ReplaceInit /\ [][ReplaceNext]_vars

(* C30: the bytecode replacer leaves the file untouched unless it reports  *)
(* replacements.  Whenever replace_bytecode ran in dry-run mode or         *)
(* returned 0, with or without backup, the content of the target file      *)
(* after the call equals its content before the call; whenever it returned *)
(* a count > 0 outside dry-run, the file contains no occurrence of the old *)
(* bytecode.                                                               *)
UntouchedUnlessReported ==
  pc = "returned" =>
    /\ (inp.dry_run \/ out.result = Returned(0)) => out.target = inp.content
    /\ (~inp.dry_run /\ out.result # Returned(0)) =>
         /\ out.result.val > 0
         /\ count(out.target.val, inp.old_bc) = 0

\* with the backup the file is as it was whenever 0 is returned, and a count
\* above 0 leaves no old bytecode; in a dry run the file is never written
UntouchedWithBackup ==
  /\ inp.dry_run => out.target = inp.content
  /\ (pc = "returned" /\ inp.backup /\ out.result = Returned(0)) => out.target = inp.content
  /\ (pc = "returned" /\ ~inp.dry_run /\ out.result # Returned(0)) =>
       /\ out.result.val > 0
       /\ count(out.target.val, inp.old_bc) = 0
       /\ out.target = Returned(replace(inp.content.val, inp.old_bc, inp.new_bc))

\* without the backup, 0 is returned with the file changed exactly when the
\* verification failed
ChangedWithoutBackup ==
  (pc = "returned" /\ out.result = Returned(0) /\ out.target # inp.content) =>
    /\ ~inp.backup
    /\ ~inp.dry_run
    /\ out.target = Returned(replace(inp.content.val, inp.old_bc, inp.new_bc))
    /\ \/ count(out.target.val, out.old_bc) > 0
       \/ count(out.target.val, out.new_bc) # out.count + out.pre_existing

\* the count with the prefix "0x" is taken only when the count without it
\* is 0, and is 0 then too
PrefixNeverMatched == (out.old_bc = inp.old_bc /\ out.new_bc = inp.new_bc)

====
